---- MODULE Spec2Model ----
(***************************************************************************)
(* Model of the multi-stage query orchestration pipeline of the cosmetics  *)
(* assistant backend: intent classification, conditional routing,         *)
(* structured and semantic retrieval, citation indexing and answer         *)
(* synthesis (backend/agents/*.py, backend/utilities/*.py, backend/main.py)*)
(*                                                                         *)
(* Text is modelled as a sequence of one-character strings, so that the    *)
(* string operations of the code (strip, upper, lower, find, replace, the  *)
(* regular expressions of the validator) are computed character by         *)
(* character.                                                              *)
(***************************************************************************)
EXTENDS Integers, Sequences, FiniteSets, TLC

(***************************************************************************)
(* Characters and the string primitives of Python used by the code.        *)
(***************************************************************************)
LowerAlpha == <<"a","b","c","d","e","f","g","h","i","j","k","l","m",
                "n","o","p","q","r","s","t","u","v","w","x","y","z">>

UpperAlpha == <<"A","B","C","D","E","F","G","H","I","J","K","L","M",
                "N","O","P","Q","R","S","T","U","V","W","X","Y","Z">>

DigitChars == {"0","1","2","3","4","5","6","7","8","9"}

LowerSet == {LowerAlpha[i] : i \in DOMAIN LowerAlpha}

UpperSet == {UpperAlpha[i] : i \in DOMAIN UpperAlpha}

\* \s of the re module, and the characters str.strip() removes
IsSpace(c) == c \in {" ", "\n", "\t", "\r"}

\* the letter sharp s (U+00DF), a lower-case letter whose upper case is the
\* two letters SS
SharpS == "SHARP_S"

\* \w of the re module
IsWord(c) == c \in LowerSet \cup UpperSet \cup DigitChars \cup {"_", SharpS}

\* str.upper() on one character
CharUpper(c) ==
    IF c \in LowerSet
    THEN UpperAlpha[CHOOSE i \in DOMAIN LowerAlpha : LowerAlpha[i] = c]
    ELSE c

\* str.lower() on one character
CharLower(c) ==
    IF c \in UpperSet
    THEN LowerAlpha[CHOOSE i \in DOMAIN UpperAlpha : UpperAlpha[i] = c]
    ELSE c

\* str.upper() on a text that holds a sharp s: each one becomes SS
RECURSIVE StrUpperFull(_)
StrUpperFull(s) ==
    IF s = <<>> THEN <<>>
    ELSE (IF s[1] = SharpS THEN <<"S", "S">> ELSE <<CharUpper(s[1])>>)
         \o StrUpperFull(Tail(s))

\* str.upper()
StrUpper(s) ==
    IF \A i \in 1..Len(s) : s[i] # SharpS
    THEN [i \in 1..Len(s) |-> CharUpper(s[i])]
    ELSE StrUpperFull(s)

\* str.lower()
StrLower(s) == [i \in 1..Len(s) |-> CharLower(s[i])]

\* s.startswith(pat, i-1): pat occurs in s at the 1-based position i
MatchAt(s, pat, i) ==
    /\ i >= 1
    /\ i + Len(pat) - 1 <= Len(s)
    /\ \A j \in 1..Len(pat) : s[i + j - 1] = pat[j]

\* pat, in upper case, occurs in s at the 1-based position i when letter case
\* is ignored (re.IGNORECASE)
MatchAtIgnoreCase(s, pat, i) ==
    /\ i >= 1
    /\ i + Len(pat) - 1 <= Len(s)
    /\ \A j \in 1..Len(pat) : CharUpper(s[i + j - 1]) = pat[j]

\* s.find(pat) + 1: the 1-based position of the first occurrence, 0 if none
StrFind(s, pat) ==
    IF \E i \in 1..(Len(s) + 1) : MatchAt(s, pat, i)
    THEN CHOOSE i \in 1..(Len(s) + 1) :
            /\ MatchAt(s, pat, i)
            /\ \A k \in 1..(i - 1) : ~MatchAt(s, pat, k)
    ELSE 0

\* pat in s
StrContains(s, pat) == StrFind(s, pat) # 0

\* s[i-1:]: the suffix of s from the 1-based position i
StrFrom(s, i) == SubSeq(s, i, Len(s))

\* s.strip()
StrStrip(s) ==
    IF \A i \in 1..Len(s) : IsSpace(s[i])
    THEN <<>>
    ELSE LET first == CHOOSE i \in 1..Len(s) :
                         ~IsSpace(s[i]) /\ \A k \in 1..(i - 1) : IsSpace(s[k])
             last  == CHOOSE i \in 1..Len(s) :
                         ~IsSpace(s[i]) /\ \A k \in (i + 1)..Len(s) : IsSpace(s[k])
         IN  SubSeq(s, first, last)

RECURSIVE StrRemoveFrom(_, _, _)
\* s[i-1:].replace(pat, ''): the occurrences of pat are removed left to
\* right, without overlap
StrRemoveFrom(s, pat, i) ==
    IF i > Len(s) THEN <<>>
    ELSE IF MatchAt(s, pat, i) THEN StrRemoveFrom(s, pat, i + Len(pat))
    ELSE <<s[i]>> \o StrRemoveFrom(s, pat, i + 1)

\* s.replace(pat, '')
StrRemove(s, pat) == StrRemoveFrom(s, pat, 1)

(***************************************************************************)
(* Words of the query language, as character sequences.                    *)
(***************************************************************************)
W_SELECT == <<"S","E","L","E","C","T">>

W_FROM == <<"F","R","O","M">>

W_UNION == <<"U","N","I","O","N">>

\* SQLValidator.ALLOWED_TABLES
ALLOWED_TABLES ==
    { <<"p","r","o","d","u","c","t","s">>,
      <<"i","n","g","r","e","d","i","e","n","t","s">>,
      <<"p","r","o","d","u","c","t","_","i","n","g","r","e","d","i","e","n","t","s">>,
      <<"c","o","m","p","a","n","i","e","s">>,
      <<"b","r","a","n","d","s">>,
      <<"c","a","t","e","g","o","r","i","e","s">>,
      <<"c","o","s","m","e","t","i","c","s">>,
      <<"c","h","e","m","i","c","a","l","s">> }

\* SQLValidator.DANGEROUS_KEYWORDS
DANGEROUS_KEYWORDS ==
    { <<"D","R","O","P">>, <<"D","E","L","E","T","E">>,
      <<"T","R","U","N","C","A","T","E">>, <<"A","L","T","E","R">>,
      <<"I","N","S","E","R","T">>, <<"U","P","D","A","T","E">>,
      <<"E","X","E","C">>, <<"E","X","E","C","U","T","E">>,
      <<"C","R","E","A","T","E">>, <<"G","R","A","N","T">>,
      <<"R","E","V","O","K","E">> }

\* the length ceiling of validate_query
MaxQueryLength == 5000

(***************************************************************************)
(* The regular expressions of SQLValidator.validate_query.                 *)
(***************************************************************************)
\* \s* from position i of s: the last position of the longest run of
\* whitespace that starts at i; i - 1 when the run is empty
SpaceRunEnd(s, i) ==
    IF i > Len(s) THEN i - 1
    ELSE IF ~IsSpace(s[i]) THEN i - 1
    ELSE CHOOSE e \in i..Len(s) :
            /\ \A k \in i..e : IsSpace(s[k])
            /\ (e = Len(s) \/ ~IsSpace(s[e + 1]))

\* \w* from position i of s: the last position of the longest run of word
\* characters that starts at i; i - 1 when the run is empty
WordRunEnd(s, i) ==
    IF i > Len(s) THEN i - 1
    ELSE IF ~IsWord(s[i]) THEN i - 1
    ELSE CHOOSE e \in i..Len(s) :
            /\ \A k \in i..e : IsWord(s[k])
            /\ (e = Len(s) \/ ~IsWord(s[e + 1]))

\* \b before position i of s (the character at i, if any, is looked at by the caller)
WordStartsAt(s, i) == i = 1 \/ ~IsWord(s[i - 1])

\* \b after a word character at position i - 1
WordEndsBefore(s, i) == i > Len(s) \/ ~IsWord(s[i])

\* StartsWithSelect without the word boundary after SELECT
StartsWithSelectPrefix(query) ==
    LET i == SpaceRunEnd(query, 1) + 1
    IN  MatchAtIgnoreCase(query, W_SELECT, i)

\* re.match(r'^\s*SELECT\b', query, re.IGNORECASE)
StartsWithSelect(query) ==
    LET i == SpaceRunEnd(query, 1) + 1
    IN  /\ MatchAtIgnoreCase(query, W_SELECT, i)
        /\ WordEndsBefore(query, i + Len(W_SELECT))

\* HasKeyword asking for white space, not a word boundary, before the keyword
HasKeywordAfterSpace(upper_query, keyword) ==
    \E i \in 1..Len(upper_query) :
        /\ MatchAt(upper_query, keyword, i)
        /\ (i = 1 \/ IsSpace(upper_query[i - 1]))
        /\ WordEndsBefore(upper_query, i + Len(keyword))

\* re.search(rf'\b{keyword}\b', upper_query)
HasKeyword(upper_query, keyword) ==
    \E i \in 1..Len(upper_query) :
        /\ MatchAt(upper_query, keyword, i)
        /\ WordStartsAt(upper_query, i)
        /\ WordEndsBefore(upper_query, i + Len(keyword))

\* re.search(r"['\"]\s*;", query)
QuoteThenSemicolon(query) ==
    \E i \in 1..Len(query) :
        /\ query[i] \in {"'", "\""}
        /\ LET j == SpaceRunEnd(query, i + 1) + 1
           IN  j <= Len(query) /\ query[j] = ";"

\* re.search(r"--\s*\n", query): the run \s* may itself hold line breaks, so
\* the pattern asks for a line break somewhere in the white space after --
CommentThenNewline(query) ==
    \E i \in 1..Len(query) :
        /\ MatchAt(query, <<"-", "-">>, i)
        /\ \E j \in (i + 2)..SpaceRunEnd(query, i + 2) : query[j] = "\n"

\* re.search(r"/\*", query)
BlockCommentOpener(query) == StrContains(query, <<"/", "*">>)

\* re.search(r"xp_", query, re.IGNORECASE)
HasXp(query) == StrContains(StrLower(query), <<"x", "p", "_">>)

\* re.search(r"sp_", query, re.IGNORECASE)
HasSp(query) == StrContains(StrLower(query), <<"s", "p", "_">>)

\* re.search(r"UNION\s+SELECT", query, re.IGNORECASE)
UnionSelect(query) ==
    \E i \in 1..Len(query) :
        /\ MatchAtIgnoreCase(query, W_UNION, i)
        /\ LET j == SpaceRunEnd(query, i + Len(W_UNION)) + 1
           IN  /\ j > i + Len(W_UNION)
               /\ MatchAtIgnoreCase(query, W_SELECT, j)

\* the loop over injection_patterns
InjectionDetected(query) ==
    \/ QuoteThenSemicolon(query)
    \/ CommentThenNewline(query)
    \/ BlockCommentOpener(query)
    \/ HasXp(query)
    \/ HasSp(query)
    \/ UnionSelect(query)

\* r'\bFROM\s+(\w+)' matches at position i of query (re.IGNORECASE)
FromMatchesAt(query, i) ==
    /\ MatchAtIgnoreCase(query, W_FROM, i)
    /\ WordStartsAt(query, i)
    /\ LET t == SpaceRunEnd(query, i + Len(W_FROM)) + 1
       IN  /\ t > i + Len(W_FROM)
           /\ t <= Len(query)
           /\ IsWord(query[t])

RECURSIVE FindTablesFrom(_, _)
\* re.findall(r'\bFROM\s+(\w+)', query, re.IGNORECASE) scanning from
\* position i: the matches are taken left to right without overlap, each
\* scan resuming after the table name of the leftmost match
FindTablesFrom(query, i) ==
    LET found == {k \in i..Len(query) : FromMatchesAt(query, k)}
    IN  IF found = {} THEN <<>>
        ELSE LET m == CHOOSE k \in found : \A j \in found : k <= j
                 t == SpaceRunEnd(query, m + Len(W_FROM)) + 1
                 e == WordRunEnd(query, t)
             IN  <<SubSeq(query, t, e)>> \o FindTablesFrom(query, e + 1)

\* re.findall(r'\bFROM\s+(\w+)', query, re.IGNORECASE)
FindTables(query) == FindTablesFrom(query, 1)

\* validate_query looking at the table names before the keywords
validate_query_tables_first(sql_query) ==
    LET query == StrStrip(sql_query)
        upper_query == StrUpper(query)
        table_match == FindTables(query)
    IN  IF sql_query = <<>>
        THEN [is_valid |-> FALSE,
              error_message |-> "Query must be a non-empty string"]
        ELSE IF ~StartsWithSelect(query)
        THEN [is_valid |-> FALSE,
              error_message |-> "Only SELECT queries are allowed (read-only operations)"]
        ELSE IF \E k \in 1..Len(table_match) :
                    StrLower(table_match[k]) \notin ALLOWED_TABLES
        THEN [is_valid |-> FALSE,
              error_message |-> "Access to table is not allowed"]
        ELSE IF \E keyword \in DANGEROUS_KEYWORDS : HasKeyword(upper_query, keyword)
        THEN [is_valid |-> FALSE,
              error_message |-> "Dangerous SQL keyword detected - not allowed"]
        ELSE IF InjectionDetected(query)
        THEN [is_valid |-> FALSE,
              error_message |-> "Potential SQL injection detected"]
        ELSE IF Len(query) > MaxQueryLength
        THEN [is_valid |-> FALSE,
              error_message |-> "Query exceeds maximum length (5000 characters)"]
        ELSE [is_valid |-> TRUE, error_message |-> "None"]

\* SQLValidator.validate_query: (is_valid, error_message)
validate_query(sql_query) ==
    LET query == StrStrip(sql_query)
        upper_query == StrUpper(query)
        table_match == FindTables(query)
    IN  IF sql_query = <<>>
        THEN [is_valid |-> FALSE,
              error_message |-> "Query must be a non-empty string"]
        ELSE IF ~StartsWithSelect(query)
        THEN [is_valid |-> FALSE,
              error_message |-> "Only SELECT queries are allowed (read-only operations)"]
        ELSE IF \E keyword \in DANGEROUS_KEYWORDS : HasKeyword(upper_query, keyword)
        THEN [is_valid |-> FALSE,
              error_message |-> "Dangerous SQL keyword detected - not allowed"]
        ELSE IF InjectionDetected(query)
        THEN [is_valid |-> FALSE,
              error_message |-> "Potential SQL injection detected"]
        ELSE IF \E k \in 1..Len(table_match) :
                    StrLower(table_match[k]) \notin ALLOWED_TABLES
        THEN [is_valid |-> FALSE,
              error_message |-> "Access to table is not allowed"]
        ELSE IF Len(query) > MaxQueryLength
        THEN [is_valid |-> FALSE,
              error_message |-> "Query exceeds maximum length (5000 characters)"]
        ELSE [is_valid |-> TRUE, error_message |-> "None"]

\* validate_sql_before_execution
validate_sql_before_execution(sql_query) == validate_query(sql_query)

(***************************************************************************)
(* sql_agent: the extraction of one statement from the generated text.     *)
(***************************************************************************)
\* the grave accent (U+0060), which a TLA+ string cannot hold
BackTick == "GRAVE"

FENCE_SQL == <<BackTick, BackTick, BackTick, "s", "q", "l">>

FENCE == <<BackTick, BackTick, BackTick>>

\* sql_agent, from the text the generator returned to the query returned
sql_agent(response) ==
    LET stripped == StrStrip(response)
        unfenced == StrStrip(StrRemove(StrRemove(StrRemove(stripped, FENCE_SQL),
                                                 FENCE), FENCE))
        start_idx == StrFind(StrUpper(unfenced), W_SELECT)
        from_select == StrFrom(unfenced, start_idx)
        semi == StrFind(from_select, <<";">>)
    IN  IF start_idx # 0
        THEN IF semi # 0 THEN SubSeq(from_select, 1, semi) ELSE from_select
        ELSE unfenced

(***************************************************************************)
(* Python dictionaries, as functions on their keys.                        *)
(***************************************************************************)
\* {}
EmptyDict == <<>>

\* d[k] = v
DictSet(d, k, v) == [x \in (DOMAIN d) \cup {k} |-> IF x = k THEN v ELSE d[x]]

\* d.get(k, default)
DictGet(d, k, default) == IF k \in DOMAIN d THEN d[k] ELSE default

(***************************************************************************)
(* Configuration (backend/utilities/config.py).                            *)
(***************************************************************************)
MAX_SQL_RESULTS == 6

MAX_SEMANTIC_RESULTS == 5

Min(a, b) == IF a <= b THEN a ELSE b

Max(a, b) == IF a >= b THEN a ELSE b

(***************************************************************************)
(* The requests: a question and a requested result-count limit.            *)
(***************************************************************************)
Questions ==
    { <<"H","o","w"," ","m","a","n","y">>,
      <<"T","O","P">>,
      <<"s","t","o","p">>,
      <<"C","o","u","n","t">>,
      <<"t","o","t","a","l">>,
      <<"m","o","s","t">>,
      <<"w","h","y">>,
      <<"t","o"," ","p">> }

\* QueryRequest.limit_results is any integer
RequestLimits == {-1, 0, 2, 9}

(***************************************************************************)
(* intent_agent: the classifier.  The text the model returns is described  *)
(* by what the extraction of lines 33-38 makes of it:                      *)
(*   raise        the generation call raised                               *)
(*   unparseable  json.loads raised (on the braced match, or on the whole  *)
(*                text when there is no braced match)                      *)
(*   number       no braced match, the text is a JSON number               *)
(*   list, string no braced match, the text is a JSON list or string; has  *)
(*                is the set of field names that `in` finds in it          *)
(*   object       the braced match is a JSON object, obj                   *)
(***************************************************************************)
IntentFields == {"query_type", "entities", "intent"}

\* the entity groups and the restated need a model output may carry
SomeEntities == [chemicals |-> <<"lead">>]

SomeIntent == <<"n","e","e","d">>

\* a JSON object of the model: qt and rs are a value or "absent"; whole says
\* whether it carries entities and intent; a reasoning of "number" is a JSON
\* number, any other reasoning is a JSON string
IntentObject(qt, rs, whole) ==
    [k \in (IF qt = "absent" THEN {} ELSE {"query_type"})
           \cup (IF rs = "absent" THEN {} ELSE {"reasoning"})
           \cup (IF whole THEN {"entities", "intent"} ELSE {})
       |-> CASE k = "query_type" -> qt
             [] k = "reasoning" -> rs
             [] k = "entities" -> SomeEntities
             [] OTHER -> SomeIntent]

IntentObjects ==
    { IntentObject(qt, rs, whole) :
        qt \in {"absent", "STRUCTURED", "SEMANTIC", "COMBINED", "HYBRID"},
        rs \in {"absent", "because", "number"},
        whole \in BOOLEAN }

IntentResponses ==
    { [kind |-> k, has |-> {}, obj |-> EmptyDict] :
        k \in {"raise", "unparseable", "number"} }
    \cup { [kind |-> k, has |-> S, obj |-> EmptyDict] :
            k \in {"list", "string"}, S \in SUBSET IntentFields }
    \cup { [kind |-> "object", has |-> {}, obj |-> d] : d \in IntentObjects }

\* the words of line 42 (the model output parses but has no query_type)
MissingFieldWords ==
    { <<"h","o","w"," ","m","a","n","y">>, <<"c","o","u","n","t">>,
      <<"t","o","t","a","l">>, <<"t","o","p">>, <<"m","o","s","t">> }

\* the words of line 56 (the except branch)
FallbackWords ==
    { <<"h","o","w"," ","m","a","n","y">>, <<"c","o","u","n","t">>,
      <<"t","o","t","a","l">>, <<"t","o","p">> }

\* any(word in user_question.lower() for word in words)
AnyWordIn(user_question, words) ==
    \E word \in words : StrContains(StrLower(user_question), word)

\* the except branch of intent_agent with the word list of line 42
IntentFallbackWithMost(user_question) ==
    [intent |-> user_question,
     entities |-> EmptyDict,
     query_type |-> IF AnyWordIn(user_question, MissingFieldWords)
                    THEN "STRUCTURED" ELSE "SEMANTIC"]

\* the except branch of intent_agent (lines 54-61)
IntentFallback(user_question) ==
    [intent |-> user_question,
     entities |-> EmptyDict,
     query_type |-> IF AnyWordIn(user_question, FallbackWords)
                    THEN "STRUCTURED" ELSE "SEMANTIC"]

\* lines 40-50 on a dict: the missing fields are defaulted
IntentDefaults(user_question, intent_data) ==
    LET d1 == IF "query_type" \notin DOMAIN intent_data
              THEN DictSet(intent_data, "query_type",
                           IF AnyWordIn(user_question, MissingFieldWords)
                           THEN "STRUCTURED" ELSE "SEMANTIC")
              ELSE intent_data
        d2 == IF "entities" \notin DOMAIN d1
              THEN DictSet(d1, "entities", EmptyDict) ELSE d1
        d3 == IF "intent" \notin DOMAIN d2
              THEN DictSet(d2, "intent", user_question) ELSE d2
    IN  d3

\* intent_agent: what it returns for a question and a model response.
\* type is the Python type of the returned value; a list or a string is
\* returned as it is when `in` finds the three fields in it, because then no
\* item assignment is tried; every exception ends in the except branch
intent_agent(user_question, response) ==
    CASE response.kind \in {"raise", "unparseable"} ->
            [type |-> "dict", value |-> IntentFallback(user_question)]
      [] response.kind = "number" ->
            \* "query_type" not in 5 raises TypeError
            [type |-> "dict", value |-> IntentFallback(user_question)]
      [] response.kind \in {"list", "string"} ->
            IF IntentFields \subseteq response.has
            THEN [type |-> response.kind, value |-> EmptyDict]
            \* intent_data["..."] = ... raises TypeError
            ELSE [type |-> "dict", value |-> IntentFallback(user_question)]
      [] OTHER ->
            [type |-> "dict",
             value |-> IntentDefaults(user_question, response.obj)]

(***************************************************************************)
(* Optional values and data frames.                                        *)
(***************************************************************************)
\* None, and a value that is not None, as a sequence of length 0 or 1
None == <<>>

Some(x) == <<x>>

\* pd.DataFrame(): no columns, no rows
EmptyFrame == [columns |-> <<>>, rows |-> <<>>]

\* len(df)
FrameLen(df) == Len(df.rows)

\* df.head(n) on the rows: the first n rows, all but the last -n when n < 0
FrameHead(rows, n) ==
    IF n >= 0
    THEN SubSeq(rows, 1, Min(n, Len(rows)))
    ELSE SubSeq(rows, 1, Max(Len(rows) + n, 0))

(***************************************************************************)
(* The tabular store (db_connections.cursor), an external collaborator:    *)
(* cursor.execute raises, or runs a statement that yields no result set    *)
(* (cursor.description is None), or yields column names and rows.          *)
(***************************************************************************)
MaxEngineRows == 8

\* the rows of an engine result of n rows, in the engine's order
EngineRows(n) == [i \in 1..n |-> 100 + i]

DbOutcomes ==
    { [kind |-> k, columns |-> <<>>, rows |-> <<>>] :
        k \in {"raise", "no result set"} }
    \cup { [kind |-> "rows", columns |-> c, rows |-> EngineRows(n)] :
            c \in { <<"ProductName">>, <<"citation_id">> },
            n \in 0..MaxEngineRows }

\* the text opens with a statement that changes the store
IsMutatingStatement(query) ==
    \E keyword \in DANGEROUS_KEYWORDS :
        /\ MatchAt(StrUpper(StrStrip(query)), keyword, 1)
        /\ WordEndsBefore(StrStrip(query), 1 + Len(keyword))

\* what cursor.execute(query) can do: a read yields rows, a mutating
\* statement runs and yields no result set, any other text is refused; every
\* call can fail
DbOutcomesFor(query) ==
    { db \in DbOutcomes :
        \/ db.kind = "raise"
        \/ db.kind = "rows" /\ StartsWithSelect(StrStrip(query))
        \/ db.kind = "no result set" /\ IsMutatingStatement(query) }

\* the texts the query generator's model returns
SqlTexts ==
    { <<"S","E","L","E","C","T"," ","a"," ","F","R","O","M"," ",
        "b","r","a","n","d","s">>,
      <<"o","k"," ",BackTick,BackTick,BackTick,"s","q","l","\n",
        "s","e","l","e","c","t"," ","a"," ","f","r","o","m"," ",
        "b","r","a","n","d","s",";"," ","D","R","O","P"," ","T","A","B","L","E",
        " ","b","r","a","n","d","s",BackTick,BackTick,BackTick>>,
      <<"D","R","O","P"," ","T","A","B","L","E"," ","b","r","a","n","d","s">>,
      <<"S","E","L","E","C","T"," ","a"," ","F","R","O","M"," ",
        "c","o","s","m","e","t","i","c","_","c","s","v">>,
      <<"s","o","r","r","y">> }

\* ollama generate_from_prompt / stream_and_collect for the query generator:
\* the call raises or returns a text
SqlGenerations ==
    { [raised |-> TRUE, text |-> <<>>] }
    \cup { [raised |-> FALSE, text |-> t] : t \in SqlTexts }

(***************************************************************************)
(* sql_node, lines 70-99: materialisation of an engine result.             *)
(***************************************************************************)
\* pd.DataFrame(results, columns=columns): rows labelled 0..n-1
DataFrame(results, columns) ==
    [columns |-> columns,
     rows |-> [i \in 1..Len(results) |-> [index |-> i - 1, data |-> results[i]]]]

\* the cap keeping the last rows, not the first
TruncateKeepsLast(df, limit) ==
    IF FrameLen(df) > limit
    THEN [df EXCEPT !.rows = SubSeq(df.rows, FrameLen(df) - Max(limit, 0) + 1,
                                    FrameLen(df))]
    ELSE df

\* lines 76-78: the cap
Truncate(df, limit) ==
    IF FrameLen(df) > limit
    THEN [df EXCEPT !.rows = FrameHead(df.rows, limit)]
    ELSE df

\* line 81 numbering the rows by i, not i + 1
InsertCitationIdsFromZero(df) ==
    [columns |-> <<"citation_id">> \o df.columns,
     rows |-> [i \in 1..FrameLen(df) |->
                 [index |-> df.rows[i].index,
                  citation_id |-> <<"sql", i - 1>>,
                  data |-> df.rows[i].data]]]

\* line 81: df_results.insert(0, 'citation_id', [sql-1 .. sql-len])
InsertCitationIds(df) ==
    [columns |-> <<"citation_id">> \o df.columns,
     rows |-> [i \in 1..FrameLen(df) |->
                 [index |-> df.rows[i].index,
                  citation_id |-> <<"sql", i>>,
                  data |-> df.rows[i].data]]]

\* lines 84-92: one source per row, numbered by the row's index label
SqlSources(df) ==
    [i \in 1..FrameLen(df) |->
        [type |-> "sql",
         citation_id |-> <<"sql", df.rows[i].index + 1>>,
         row_index |-> df.rows[i].index + 1,
         row_data |-> df.rows[i],
         source |-> "California Safe Cosmetics Database"]]

(***************************************************************************)
(* The vector index (db_connections.pinecone_index) and the embedding      *)
(* model, external collaborators.                                          *)
(***************************************************************************)
MaxMatches == 12

NotAvailable == <<"N/A">>

\* the metadata of the i-th nearest record: complete, partial or empty
Metadata(i) ==
    CASE i % 3 = 1 ->
            [product_name |-> <<"product", i>>, chemical_name |-> <<"chemical", i>>,
             cas_number |-> <<"cas", i>>, brand_name |-> <<"brand", i>>,
             company_name |-> <<"company", i>>, sub_category |-> <<"sub", i>>,
             primary_category |-> <<"primary", i>>, is_discontinued |-> TRUE,
             cdph_id |-> <<"cdph", i>>]
      [] i % 3 = 2 ->
            [product_name |-> <<"product", i>>,
             primary_category |-> <<"primary", i>>,
             cdph_id |-> <<"cdph", i>>]
      [] OTHER -> EmptyDict

\* the i-th nearest record; the scores decrease, with ties
Match(i) == [id |-> i, score |-> 100 - 10 * (i \div 2), metadata |-> Metadata(i)]

\* the index's ranking for the question
RankedIndex == [i \in 1..MaxMatches |-> Match(i)]

\* embedding_model.encode + pinecone_index.query(top_k=top_k): a call raises,
\* or the index returns its nearest records, at most top_k of them; a request
\* for fewer than one record is refused or answered with no record
VectorOutcomes(top_k) ==
    { [raised |-> TRUE, matches |-> <<>>] }
    \cup { [raised |-> FALSE, matches |-> SubSeq(RankedIndex, 1, n)] :
            n \in 0..Max(0, Min(top_k, MaxMatches)) }

\* semantic_search lines 54-66: the row of the i-th match
SemanticRow(i, match) ==
    LET meta == match.metadata
    IN  [index |-> i - 1,
         citation_id |-> <<"sem", i>>,
         Rank |-> i,
         Score |-> match.score,
         Product |-> DictGet(meta, "product_name", NotAvailable),
         Chemical |-> DictGet(meta, "chemical_name", NotAvailable),
         CASNumber |-> DictGet(meta, "cas_number", NotAvailable),
         Brand |-> DictGet(meta, "brand_name", NotAvailable),
         Company |-> DictGet(meta, "company_name", NotAvailable),
         Category |-> DictGet(meta, "sub_category",
                              DictGet(meta, "primary_category", NotAvailable)),
         Status |-> IF DictGet(meta, "is_discontinued", FALSE)
                    THEN "Discontinued" ELSE "Active",
         CDPHID |-> DictGet(meta, "cdph_id", NotAvailable)]

\* semantic_search lines 70-81: the source of the i-th match
SemanticSource(i, match) ==
    LET meta == match.metadata
    IN  [type |-> "semantic",
         citation_id |-> <<"sem", i>>,
         rank |-> i,
         score |-> match.score,
         product |-> DictGet(meta, "product_name", NotAvailable),
         company |-> DictGet(meta, "company_name", NotAvailable),
         chemical |-> DictGet(meta, "chemical_name", NotAvailable),
         cdph_id |-> DictGet(meta, "cdph_id", NotAvailable),
         full_metadata |-> meta,
         row_index |-> i]

SemanticColumns ==
    <<"citation_id", "Rank", "Score", "Product", "Chemical", "CAS Number",
      "Brand", "Company", "Category", "Status", "CDPH ID">>

\* semantic_search: from the outcome of the external calls to
\* (raised, DataFrame, sources); an empty list of rows makes the empty frame
semantic_search(vector) ==
    IF vector.raised
    THEN [raised |-> TRUE, df |-> EmptyFrame, sources |-> <<>>]
    ELSE [raised |-> FALSE,
          df |-> IF vector.matches = <<>> THEN EmptyFrame
                 ELSE [columns |-> SemanticColumns,
                       rows |-> [i \in 1..Len(vector.matches) |->
                                   SemanticRow(i, vector.matches[i])]],
          sources |-> [i \in 1..Len(vector.matches) |->
                         SemanticSource(i, vector.matches[i])]]

(***************************************************************************)
(* hybrid_search and semantic_agent.                                       *)
(***************************************************************************)
\* the largest allow-set the filter query yields
MaxAllowSet == 3

\* pd.read_sql_query(filter) and the set of its CDPHId values: the read
\* raises, or yields an allow-set of record identifiers
FilterOutcomes ==
    { [raised |-> TRUE, ids |-> {}] }
    \cup { [raised |-> FALSE, ids |-> { <<"cdph", i>> : i \in S }] :
            S \in {A \in SUBSET (1..MaxMatches) : Cardinality(A) <= MaxAllowSet} }

\* hybrid_search line 120 passing a match that carries no identifier
QualifiesOrUnidentified(match, filtered_ids) ==
    \/ "cdph_id" \notin DOMAIN match.metadata
    \/ match.metadata["cdph_id"] \in filtered_ids

\* hybrid_search lines 119-120: the match is not skipped
Qualifies(match, filtered_ids) ==
    DictGet(match.metadata, "cdph_id", <<"">>) \in filtered_ids

\* hybrid_search line 145 with > for >=
LoopBreaksLate(retained, top_k) == retained > top_k

\* hybrid_search lines 145-146: the loop ends once retained matches are kept
LoopBreaks(retained, top_k) == retained >= top_k

RECURSIVE HybridLoop(_, _, _, _, _)
\* the loop of hybrid_search (lines 118-146) from the i-th match on, kept
\* being the matches retained so far
HybridLoop(matches, filtered_ids, top_k, i, kept) ==
    IF i > Len(matches) THEN kept
    ELSE IF ~Qualifies(matches[i], filtered_ids)
    THEN HybridLoop(matches, filtered_ids, top_k, i + 1, kept)
    ELSE IF LoopBreaks(Len(kept) + 1, top_k)
    THEN Append(kept, matches[i])
    ELSE HybridLoop(matches, filtered_ids, top_k, i + 1, Append(kept, matches[i]))

\* hybrid_search lines 125-133: the row of the n-th retained match
HybridRow(n, match) ==
    LET meta == match.metadata
    IN  [index |-> n - 1,
         citation_id |-> <<"hyb", n>>,
         Score |-> match.score,
         Product |-> DictGet(meta, "product_name", NotAvailable),
         Chemical |-> DictGet(meta, "chemical_name", NotAvailable),
         Brand |-> DictGet(meta, "brand_name", NotAvailable),
         Company |-> DictGet(meta, "company_name", NotAvailable),
         Category |-> DictGet(meta, "sub_category",
                              DictGet(meta, "primary_category", NotAvailable))]

\* hybrid_search lines 135-143: the source of the n-th retained match
HybridSource(n, match) ==
    LET meta == match.metadata
    IN  [type |-> "semantic_filtered",
         citation_id |-> <<"hyb", n>>,
         product |-> DictGet(meta, "product_name", NotAvailable),
         company |-> DictGet(meta, "company_name", NotAvailable),
         chemical |-> DictGet(meta, "chemical_name", NotAvailable),
         full_metadata |-> meta,
         row_index |-> n]

HybridColumns ==
    <<"citation_id", "Score", "Product", "Chemical", "Brand", "Company", "Category">>

\* hybrid_search: filter is the outcome of the filter query, vector the
\* outcome of the over-fetch of top_k * 10 neighbours
hybrid_search(top_k, filter, vector) ==
    IF filter.raised \/ vector.raised
    THEN [raised |-> TRUE, df |-> EmptyFrame, sources |-> <<>>]
    ELSE LET kept == HybridLoop(vector.matches, filter.ids, top_k, 1, <<>>)
         IN  [raised |-> FALSE,
              df |-> IF kept = <<>> THEN EmptyFrame
                     ELSE [columns |-> HybridColumns,
                           rows |-> [n \in 1..Len(kept) |-> HybridRow(n, kept[n])]],
              sources |-> [n \in 1..Len(kept) |-> HybridSource(n, kept[n])]]

\* semantic_agent: hybrid search when a filter is given, plain search otherwise
semantic_agent(top_k, sql_filter, filter, vector) ==
    IF sql_filter # None /\ sql_filter # Some(<<>>)
    THEN hybrid_search(top_k, filter, vector)
    ELSE semantic_search(vector)

(***************************************************************************)
(* response_generator.                                                     *)
(***************************************************************************)
NotFoundMessage ==
    "No products or data found matching your criteria. Try rephrasing your question or using different search terms."

\* the answer model: the call raises or returns a text
AnswerGenerations ==
    { [raised |-> TRUE, text |-> ""], [raised |-> FALSE, text |-> "generated answer"] }

\* citation_map keyed by the type of the entry, not by its id
CitationPutByType(citation_map, cid, entry) ==
    IF \E i \in 1..Len(citation_map) : citation_map[i].type = entry.type
    THEN [i \in 1..Len(citation_map) |->
            IF citation_map[i].type = entry.type
            THEN [entry EXCEPT !.citation_id = cid]
            ELSE citation_map[i]]
    ELSE Append(citation_map, [entry EXCEPT !.citation_id = cid])

\* citation_map[cid] = entry on an insertion-ordered dict, kept as the
\* sequence of its items
CitationPut(citation_map, cid, entry) ==
    IF \E i \in 1..Len(citation_map) : citation_map[i].citation_id = cid
    THEN [i \in 1..Len(citation_map) |->
            IF citation_map[i].citation_id = cid
            THEN [entry EXCEPT !.citation_id = cid]
            ELSE citation_map[i]]
    ELSE Append(citation_map, [entry EXCEPT !.citation_id = cid])

RECURSIVE SqlCitations(_, _, _, _)
\* lines 36-44: the loop over the structured rows from the i-th on
SqlCitations(citation_map, citation_counter, rows, i) ==
    IF i > Len(rows) THEN citation_map
    ELSE SqlCitations(
            CitationPut(citation_map, <<"sql", rows[i].index + 1>>,
                        [citation_id |-> <<"sql", rows[i].index + 1>>,
                         type |-> "sql",
                         row_index |-> rows[i].index + 1,
                         row_data |-> rows[i],
                         citation_number |-> citation_counter]),
            citation_counter + 1, rows, i + 1)

RECURSIVE SemanticCitations(_, _, _, _)
\* lines 58-70: the loop over the semantic rows from the i-th on
SemanticCitations(citation_map, citation_counter, rows, i) ==
    IF i > Len(rows) THEN citation_map
    ELSE SemanticCitations(
            CitationPut(citation_map, rows[i].citation_id,
                        [citation_id |-> rows[i].citation_id,
                         type |-> "semantic",
                         row_index |-> rows[i].index + 1,
                         row_data |-> rows[i],
                         citation_number |-> citation_counter]),
            citation_counter + 1, rows, i + 1)

\* response_generator without the return of line 73: the text generator is
\* called whether or not there is a citation
response_generator_always_generates(results, answer) ==
    LET sql_rows == IF results.sql_results # None
                    THEN results.sql_results[1].rows ELSE <<>>
        semantic_rows == IF results.semantic_results # None
                         THEN results.semantic_results[1].rows ELSE <<>>
        after_sql == SqlCitations(<<>>, 1, sql_rows, 1)
        citation_map == SemanticCitations(after_sql, 1 + Len(sql_rows),
                                          semantic_rows, 1)
    IN  IF answer.raised
        THEN [raised |-> TRUE, generation_calls |-> 1,
              response |-> "", citations |-> <<>>]
        ELSE [raised |-> FALSE, generation_calls |-> 1,
              response |-> answer.text, citations |-> citation_map]

\* response_generator: results holds the frames given under the keys
\* sql_results and semantic_results (None when the key is absent); answer is
\* the outcome of the text-generation call, made only when there is a citation
response_generator(results, answer) ==
    LET sql_rows == IF results.sql_results # None
                    THEN results.sql_results[1].rows ELSE <<>>
        semantic_rows == IF results.semantic_results # None
                         THEN results.semantic_results[1].rows ELSE <<>>
        after_sql == SqlCitations(<<>>, 1, sql_rows, 1)
        citation_map == SemanticCitations(after_sql, 1 + Len(sql_rows),
                                          semantic_rows, 1)
    IN  IF Len(citation_map) = 0
        THEN [raised |-> FALSE, generation_calls |-> 0,
              response |-> NotFoundMessage, citations |-> <<>>]
        ELSE IF answer.raised
        THEN [raised |-> TRUE, generation_calls |-> 1,
              response |-> "", citations |-> <<>>]
        ELSE [raised |-> FALSE, generation_calls |-> 1,
              response |-> answer.text, citations |-> citation_map]

(***************************************************************************)
(* The state of one request: the AgentState channels of the graph, the     *)
(* position of the run, the HTTP response, and a record of the external    *)
(* calls made.                                                             *)
(***************************************************************************)
VARIABLES
    pc,                \* the node about to run, "END", "raised" or "returned"
    request_limit,     \* QueryRequest.limit_results
    user_question,
    limit_results,
    intent_analysis,
    sql_results,
    semantic_results,
    sql_sources,
    semantic_sources,
    sql_query,
    final_response,
    citations,
    explanation,
    messages,
    http_response,     \* what query_endpoint answers, None before it does
    classifier_output, \* the kind of text the classifier's model returned
    executed,          \* the queries the store has run, in order
    calls,             \* the number of calls made to each external service
    outcome,           \* per retrieval stage: "not run", "ok" or its failure
    visited,           \* the nodes that have run, in order
    applied,           \* a function called on its own, outside a request:
                       \* its name, its arguments and what it returned
    cursor,            \* db_connections.cursor, the one cursor of the process
    requests           \* the requests in flight when two are served at once

vars ==
    <<pc, request_limit, user_question, limit_results, intent_analysis,
      sql_results, semantic_results, sql_sources, semantic_sources, sql_query,
      final_response, citations, explanation, messages, http_response,
      classifier_output, executed, calls, outcome, visited, applied,
      cursor, requests>>

\* AgentState: the value of every channel, as a node receives it
AgentState ==
    [user_question |-> user_question,
     intent_analysis |-> intent_analysis,
     sql_results |-> sql_results,
     semantic_results |-> semantic_results,
     sql_sources |-> sql_sources,
     semantic_sources |-> semantic_sources,
     sql_query |-> sql_query,
     final_response |-> final_response,
     citations |-> citations,
     explanation |-> explanation,
     messages |-> messages,
     limit_results |-> limit_results]

\* operator.add, the reducer of AgentState.messages: the graph merges the
\* messages a node returns into the channel by concatenation
operator_add(channel, update) == channel \o update

\* The graph writes the state a node returned into the channels: every
\* channel takes the returned value, messages through its reducer
ChannelsUpdated(returned) ==
    /\ user_question' = returned.user_question
    /\ intent_analysis' = returned.intent_analysis
    /\ sql_results' = returned.sql_results
    /\ semantic_results' = returned.semantic_results
    /\ sql_sources' = returned.sql_sources
    /\ semantic_sources' = returned.semantic_sources
    /\ sql_query' = returned.sql_query
    /\ final_response' = returned.final_response
    /\ citations' = returned.citations
    /\ explanation' = returned.explanation
    /\ messages' = operator_add(messages, returned.messages)
    /\ limit_results' = returned.limit_results

\* an exception leaves the graph: no channel is written
ChannelsKept ==
    UNCHANGED <<user_question, intent_analysis, sql_results, semantic_results,
                sql_sources, semantic_sources, sql_query, final_response,
                citations, explanation, messages, limit_results>>

\* a diagnostic message: f"{tag}: {n} results" or f"{tag}: {text}"
Message(tag, n, text) == [tag |-> tag, n |-> n, text |-> text]

\* no function has been called on its own
NoApplication == [function |-> "none"]

\* db_connections.cursor after connect_sqlite: the count query of line 59 has
\* been read by fetchone, executed_by is the request whose statement the
\* cursor ran last, 0 for none
StartupCursor ==
    [executed_by |-> 0, description |-> Some(<<"COUNT(*)">>), pending |-> <<>>]

\* cursor.execute(query), the store doing db: the description and the pending
\* result set of the earlier statement are replaced
cursor_execute(c, by, db) ==
    [executed_by |-> by,
     description |-> IF db.kind = "rows" THEN Some(db.columns) ELSE None,
     pending |-> IF db.kind = "rows" THEN db.rows ELSE <<>>]

\* cursor.fetchall(): the pending rows, none of them left pending
cursor_fetchall(c) == [results |-> c.pending, cursor |-> [c EXCEPT !.pending = <<>>]]

\* sql_node lines 70-72 on the cursor c: what the stage reads back from the
\* cursor, and the cursor it leaves
SqlNodeOnCursor(c, by, db) ==
    LET executed_ == cursor_execute(c, by, db)
        fetched == cursor_fetchall(executed_)
    IN  [db |-> [kind |-> db.kind,
                 columns |-> IF fetched.cursor.description = None THEN <<>>
                             ELSE fetched.cursor.description[1],
                 rows |-> fetched.results],
         cursor |-> IF db.kind = "raise" THEN executed_ ELSE fetched.cursor]

\* one request at a time
NoRequests == <<>>

\* query_cosmetics_db lines 99-114: the initial state of the graph
Init ==
    /\ pc = "intent"
    /\ request_limit \in RequestLimits
    /\ user_question \in Questions
    /\ limit_results = Min(request_limit, MAX_SQL_RESULTS)
    /\ intent_analysis = EmptyDict
    /\ sql_results = None
    /\ semantic_results = None
    /\ sql_sources = <<>>
    /\ semantic_sources = <<>>
    /\ sql_query = None
    /\ final_response = ""
    /\ citations = <<>>
    /\ explanation = EmptyDict
    /\ messages = <<>>
    /\ http_response = None
    /\ classifier_output = "none"
    /\ executed = <<>>
    /\ calls = [classifier |-> 0, generator |-> 0, store |-> 0,
                index |-> 0, answer |-> 0]
    /\ outcome = [sql |-> "not run", semantic |-> "not run"]
    /\ visited = <<>>
    /\ applied = NoApplication
    /\ cursor = StartupCursor
    /\ requests = NoRequests

\* should_use_sql sending every query_type but SEMANTIC to the sql node
should_use_sql_unless_semantic(state) ==
    LET query_type == DictGet(state.intent_analysis, "query_type", "SEMANTIC")
    IN  IF query_type # "SEMANTIC" THEN "sql" ELSE "semantic"

\* should_use_sql: the edge out of the intent node
should_use_sql(state) ==
    LET query_type == DictGet(state.intent_analysis, "query_type", "SEMANTIC")
    IN  IF query_type = "STRUCTURED" \/ query_type = "COMBINED"
        THEN "sql" ELSE "semantic"

\* should_use_semantic without its COMBINED branch
should_use_semantic_never(state) == "response"

\* should_use_semantic testing for the query types that use the sql node
should_use_semantic_like_sql(state) ==
    LET query_type == DictGet(state.intent_analysis, "query_type", "SEMANTIC")
    IN  IF query_type = "STRUCTURED" \/ query_type = "COMBINED"
        THEN "semantic" ELSE "response"

\* should_use_semantic: the edge out of the sql node
should_use_semantic(state) ==
    LET query_type == DictGet(state.intent_analysis, "query_type", "SEMANTIC")
    IN  IF query_type = "COMBINED" THEN "semantic" ELSE "response"

\* intent_node: (raised, the state returned).  Lines 47-49 raise when the
\* value intent_agent returned is no dict, or its reasoning cannot be sliced
intent_node(state, response) ==
    LET intent == intent_agent(state.user_question, response)
    IN  IF \/ intent.type # "dict"
           \/ /\ "reasoning" \in DOMAIN intent.value
              /\ intent.value["reasoning"] = "number"
        THEN [raised |-> TRUE, state |-> state]
        ELSE [raised |-> FALSE,
              state |-> [state EXCEPT
                  !.intent_analysis = intent.value,
                  !.messages = Append(@, Message("Intent analyzed", 0,
                                                 intent.value["query_type"]))]]

\* the exception sql_node catches, "none" when the try block completes
SqlFailure(generation, db) ==
    CASE generation.raised -> "generation failed"
      [] db.kind = "raise" -> "execution failed"
      [] db.kind = "no result set" -> "'NoneType' object is not iterable"
      [] "citation_id" \in {db.columns[i] : i \in DOMAIN db.columns} ->
            "cannot insert citation_id, already exists"
      [] OTHER -> "none"

\* sql_node lines 94-99: the end of the try block
SqlTryState(state, sql_query_, df_results) ==
    [state EXCEPT
        !.sql_results = Some(df_results),
        !.sql_query = Some(sql_query_),
        !.sql_sources = SqlSources(df_results),
        !.messages = Append(@, Message("SQL executed", FrameLen(df_results), ""))]

\* the except block of sql_node without its diagnostic message
SqlExceptStateSilent(state, e) ==
    [state EXCEPT
        !.sql_results = Some(EmptyFrame),
        !.sql_query = None,
        !.sql_sources = <<>>]

\* sql_node lines 101-107: the except block
SqlExceptState(state, e) ==
    [state EXCEPT
        !.sql_results = Some(EmptyFrame),
        !.sql_query = None,
        !.sql_sources = <<>>,
        !.messages = Append(@, Message("SQL error", 0, e))]

\* sql_node: the state returned, for the text the generator returned and
\* what the store did with the query
sql_node(state, generation, db) ==
    LET query == sql_agent(generation.text)
        e == SqlFailure(generation, db)
        limit == state.limit_results
        df_results == InsertCitationIds(
                          Truncate(DataFrame(db.rows, db.columns), limit))
    IN  IF e = "none"
        THEN SqlTryState(state, query, df_results)
        ELSE SqlExceptState(state, e)

\* semantic_node lines 126-130: the end of the try block
SemanticTryState(state, df_results, sources) ==
    [state EXCEPT
        !.semantic_results = Some(df_results),
        !.semantic_sources = sources,
        !.messages = Append(@, Message("Semantic search", FrameLen(df_results), ""))]

\* the except block of semantic_node resetting the structured outputs too
SemanticExceptStateResetsSql(state, e) ==
    [state EXCEPT
        !.sql_results = Some(EmptyFrame),
        !.sql_query = None,
        !.sql_sources = <<>>,
        !.semantic_results = Some(EmptyFrame),
        !.semantic_sources = <<>>,
        !.messages = Append(@, Message("Semantic error", 0, e))]

\* semantic_node lines 131-136: the except block
SemanticExceptState(state, e) ==
    [state EXCEPT
        !.semantic_results = Some(EmptyFrame),
        !.semantic_sources = <<>>,
        !.messages = Append(@, Message("Semantic error", 0, e))]

\* line 118 of semantic_node: the number of neighbours asked for
SemanticLimit(state) == Min(state.limit_results, MAX_SEMANTIC_RESULTS)

\* the recorded structured query handed to semantic_agent as its filter
SemanticFilterFromSql(state) == state.sql_query

\* the filter semantic_node hands to semantic_agent (line 122)
SemanticFilter(state) == None

\* semantic_node: the state returned, for the outcomes of the external calls
semantic_node(state, filter, vector) ==
    LET found == semantic_agent(SemanticLimit(state), SemanticFilter(state),
                                filter, vector)
    IN  IF found.raised
        THEN SemanticExceptState(state, "search failed")
        ELSE SemanticTryState(state, found.df, found.sources)

\* a frame that is not None and has rows, else None (response_node lines 145-148)
NonEmpty(frame) ==
    IF frame # None /\ FrameLen(frame[1]) > 0 THEN frame ELSE None

\* response_node: (raised, the state returned, the generation calls made)
response_node(state, answer) ==
    LET results == [sql_results |-> NonEmpty(state.sql_results),
                    semantic_results |-> NonEmpty(state.semantic_results)]
        explain_data == [intent |-> state.intent_analysis,
                         steps |-> state.messages]
        generated == response_generator(results, answer)
    IN  [raised |-> generated.raised,
         generation_calls |-> generated.generation_calls,
         state |-> IF generated.raised THEN state
                   ELSE [state EXCEPT
                            !.final_response = generated.response,
                            !.citations = generated.citations,
                            !.explanation = explain_data]]

(***************************************************************************)
(* The steps of the compiled graph (build_workflow) and of the endpoint.   *)
(***************************************************************************)
\* the graph runs the intent node and follows should_use_sql
StepIntent ==
    /\ pc = "intent"
    /\ \E response \in IntentResponses :
        LET ran == intent_node(AgentState, response)
        IN  /\ classifier_output' = response.kind
            /\ IF ran.raised
               THEN pc' = "raised" /\ ChannelsKept
               ELSE pc' = should_use_sql(ran.state) /\ ChannelsUpdated(ran.state)
    /\ calls' = [calls EXCEPT !.classifier = @ + 1]
    /\ visited' = Append(visited, "intent")
    /\ UNCHANGED <<request_limit, http_response, executed, outcome, applied,
                   cursor, requests>>

\* the graph runs the sql node and follows should_use_semantic
StepSql ==
    /\ pc = "sql"
    /\ \E generation \in SqlGenerations :
        LET query == sql_agent(generation.text)
        IN  \E db \in DbOutcomesFor(query) :
            LET on_cursor == SqlNodeOnCursor(cursor, 1, db)
                returned == sql_node(AgentState, generation, on_cursor.db)
                e == SqlFailure(generation, db)
            IN  /\ ChannelsUpdated(returned)
                /\ cursor' = IF generation.raised THEN cursor
                              ELSE on_cursor.cursor
                /\ pc' = should_use_semantic(returned)
                /\ calls' = [calls EXCEPT
                                !.generator = @ + 1,
                                !.store = IF generation.raised THEN @ ELSE @ + 1]
                /\ executed' = IF ~generation.raised /\ db.kind # "raise"
                               THEN Append(executed, query) ELSE executed
                /\ outcome' = [outcome EXCEPT
                                !.sql = IF e = "none" THEN "ok" ELSE e]
    /\ visited' = Append(visited, "sql")
    /\ UNCHANGED <<request_limit, http_response, classifier_output, applied,
                   requests>>

\* the graph runs the semantic node, then the response node
StepSemantic ==
    /\ pc = "semantic"
    /\ \E vector \in VectorOutcomes(
                        IF SemanticFilter(AgentState) = None
                        THEN SemanticLimit(AgentState)
                        ELSE SemanticLimit(AgentState) * 10),
          filter \in IF SemanticFilter(AgentState) = None
                     THEN {[raised |-> TRUE, ids |-> {}]}
                     ELSE FilterOutcomes :
        /\ ChannelsUpdated(semantic_node(AgentState, filter, vector))
        /\ outcome' = [outcome EXCEPT
                        !.semantic = IF vector.raised
                                     THEN "search failed" ELSE "ok"]
    /\ pc' = "response"
    /\ calls' = [calls EXCEPT !.index = @ + 1]
    /\ visited' = Append(visited, "semantic")
    /\ UNCHANGED <<request_limit, http_response, classifier_output, executed,
                   applied, cursor, requests>>

\* the graph runs the response node and ends
StepResponse ==
    /\ pc = "response"
    /\ \E answer \in AnswerGenerations :
        LET ran == response_node(AgentState, answer)
        IN  /\ calls' = [calls EXCEPT !.answer = @ + ran.generation_calls]
            /\ IF ran.raised
               THEN pc' = "raised" /\ ChannelsKept
               ELSE pc' = "END" /\ ChannelsUpdated(ran.state)
    /\ visited' = Append(visited, "response")
    /\ UNCHANGED <<request_limit, http_response, classifier_output, executed,
                   outcome, applied, cursor, requests>>

\* query_endpoint lines 253-265: the rows of a frame without the internal
\* columns, None for a frame that is None or empty
PublicRows(frame) ==
    IF frame = None \/ FrameLen(frame[1]) = 0 THEN None
    ELSE Some([i \in 1..FrameLen(frame[1]) |->
                 [k \in (DOMAIN frame[1].rows[i])
                        \ {"index", "citation_id", "Rank", "Score"}
                    |-> frame[1].rows[i][k]]])

\* query_endpoint: the graph has ended and the Response is assembled, or an
\* exception left the graph and the caller gets HTTP 500
query_endpoint ==
    /\ pc \in {"END", "raised"}
    /\ http_response' =
        IF pc = "END"
        THEN Some([status |-> 200,
                   answer |-> final_response,
                   sql_results |-> PublicRows(sql_results),
                   semantic_results |-> PublicRows(semantic_results),
                   sql_query_used |-> None,
                   sources |-> sql_sources \o semantic_sources,
                   citations |-> citations,
                   explanation |-> explanation,
                   intent |-> intent_analysis])
        ELSE Some([status |-> 500,
                   answer |-> "",
                   sql_results |-> None,
                   semantic_results |-> None,
                   sql_query_used |-> None,
                   sources |-> <<>>,
                   citations |-> <<>>,
                   explanation |-> EmptyDict,
                   intent |-> EmptyDict])
    /\ pc' = "returned"
    /\ ChannelsKept
    /\ UNCHANGED <<request_limit, classifier_output, executed, calls, outcome,
                   visited, applied, cursor, requests>>

Next ==
    \/ StepIntent
    \/ StepSql
    \/ StepSemantic
    \/ StepResponse
    \/ query_endpoint

Spec == Init /\ [][Next]_vars

(***************************************************************************)
(* Properties of the orchestration.                                        *)
(***************************************************************************)
\* s is an initial part of t
IsPrefix(s, t) == Len(s) <= Len(t) /\ SubSeq(t, 1, Len(s)) = s

\* the number of times the node ran
TimesRun(node) == Cardinality({i \in 1..Len(visited) : visited[i] = node})

\* the Classifying stage has completed and set the Intent
Classified == visited # <<>> /\ intent_analysis # EmptyDict

\* the query_type of the Intent, "SEMANTIC" standing for a missing value as in
\* the transition table
QueryType == DictGet(intent_analysis, "query_type", "SEMANTIC")

\* C1: every query the store has run was accepted by the Safety Filter, and
\* a query is recorded as the stage's query only if the filter accepts it (a
\* rejected query leaves an empty structured result and no recorded query).
C1_ExecutedOnlyIfValidated ==
    /\ \A i \in 1..Len(executed) :
          validate_sql_before_execution(executed[i]).is_valid
    /\ sql_query # None => validate_sql_before_execution(sql_query[1]).is_valid

\* C2: no failure of an external call leaves the orchestrator: the run never
\* ends in an exception, and the answer the caller gets is a well-formed
\* Response (status 200 with answer, citations and diagnostic trail).
C2_NoFailureEscapes ==
    /\ Classified => pc # "raised"
    /\ (Classified /\ pc = "returned") =>
          /\ http_response # None
          /\ http_response[1].status = 200
          /\ {"intent", "steps"} \subseteq DOMAIN http_response[1].explanation

\* C3: when the Intent's query_type is neither STRUCTURED nor COMBINED, the
\* structured stage is never invoked (no query generated, none executed) and
\* the semantic stage has run exactly once when Synthesizing starts.
C3_SemanticRouteSkipsStructured ==
    (Classified /\ QueryType \notin {"STRUCTURED", "COMBINED"}) =>
        /\ TimesRun("sql") = 0
        /\ pc # "sql"
        /\ calls.generator = 0 /\ calls.store = 0 /\ executed = <<>>
        /\ sql_results = None /\ sql_query = None
        /\ IsPrefix(visited, <<"intent", "semantic", "response">>)
        /\ (pc = "response" \/ TimesRun("response") > 0) =>
              (TimesRun("semantic") = 1 /\ calls.index = 1)
        /\ pc = "semantic" <=> visited = <<"intent">>

\* the semantic route was taken for a query_type outside the enumeration and
\* Synthesizing is about to start
C3_Witness ==
    /\ Classified /\ QueryType = "HYBRID"
    /\ pc = "response" /\ visited = <<"intent", "semantic">>

\* C4: a COMBINED request runs the structured stage and then the semantic
\* stage, each exactly once; the semantic stage starts only after the
\* structured stage has completed, with a result or a caught failure.
C4_CombinedRunsBothInOrder ==
    (Classified /\ QueryType = "COMBINED") =>
        /\ IsPrefix(visited, <<"intent", "sql", "semantic", "response">>)
        /\ pc = "sql" <=> visited = <<"intent">>
        /\ pc = "semantic" <=> visited = <<"intent", "sql">>
        /\ pc = "semantic" =>
              /\ outcome.sql # "not run" /\ sql_results # None
              /\ outcome.semantic = "not run" /\ semantic_results = None
        /\ (pc = "response" \/ TimesRun("response") > 0) =>
              /\ TimesRun("sql") = 1 /\ TimesRun("semantic") = 1
              /\ calls.generator = 1 /\ calls.index = 1

\* a COMBINED run whose structured stage failed is about to synthesize
C4_Witness ==
    /\ Classified /\ QueryType = "COMBINED"
    /\ pc = "response" /\ visited = <<"intent", "sql", "semantic">>
    /\ outcome.sql = "execution failed" /\ outcome.semantic = "ok"

\* C5: a STRUCTURED request runs intent, sql, response and ends; the semantic
\* stage is never invoked, whether the structured stage succeeded or failed.
C5_StructuredSkipsSemantic ==
    (Classified /\ QueryType = "STRUCTURED") =>
        /\ IsPrefix(visited, <<"intent", "sql", "response">>)
        /\ pc \notin {"intent", "semantic"}
        /\ pc = "sql" <=> visited = <<"intent">>
        /\ pc = "response" <=> visited = <<"intent", "sql">>
        /\ pc = "END" => visited = <<"intent", "sql", "response">>
        /\ TimesRun("semantic") = 0 /\ calls.index = 0
        /\ outcome.semantic = "not run"
        /\ semantic_results = None /\ semantic_sources = <<>>

\* a STRUCTURED run whose structured stage failed has ended with a Response
C5_Witness ==
    /\ Classified /\ QueryType = "STRUCTURED"
    /\ pc = "returned" /\ http_response[1].status = 200
    /\ outcome.sql = "generation failed"
    /\ visited = <<"intent", "sql", "response">>

\* the diagnostic messages of the stage with these tags
StageMessages(trail, tags) == {i \in 1..Len(trail) : trail[i].tag \in tags}

\* C6: when the structured stage fails (query generation, execution or
\* materialisation of the result), the stage ends with an empty structured
\* result, no recorded query, no structured sources and one diagnostic
\* message appended to the trail, and the run goes on to the stage the
\* transition table gives for the query_type.
C6_StructuredFailureIsCaught ==
    [][(pc = "sql" /\ outcome'.sql \notin {"not run", "ok"}) =>
          /\ sql_results' = Some(EmptyFrame)
          /\ sql_query' = None
          /\ sql_sources' = <<>>
          /\ IsPrefix(messages, messages')
          /\ Len(messages') > Len(messages)
          /\ messages'[Len(messages')] = Message("SQL error", 0, outcome'.sql)
          /\ Cardinality(StageMessages(messages', {"SQL error", "SQL executed"})) = 1
          /\ intent_analysis' = intent_analysis
          /\ QueryType \in {"STRUCTURED", "COMBINED"}
          /\ QueryType = "COMBINED" => pc' = "semantic"
          /\ QueryType = "STRUCTURED" => pc' = "response"
      ]_vars

\* the materialisation of a result failed in a COMBINED run, which goes on
\* to the semantic stage
C6_Witness ==
    /\ QueryType = "COMBINED" /\ pc = "semantic"
    /\ outcome.sql = "'NoneType' object is not iterable"
    /\ sql_results = Some(EmptyFrame) /\ sql_query = None

\* C7: the semantic stage leaves the Intent, the structured rows, the
\* structured sources and the recorded query as they were; when it fails it
\* only empties the semantic result and sources and appends one diagnostic
\* message.
C7_SemanticStageFrame ==
    [][pc = "semantic" =>
          /\ intent_analysis' = intent_analysis
          /\ sql_results' = sql_results
          /\ sql_sources' = sql_sources
          /\ sql_query' = sql_query
          /\ outcome'.semantic \notin {"not run", "ok"} =>
                /\ semantic_results' = Some(EmptyFrame)
                /\ semantic_sources' = <<>>
                /\ IsPrefix(messages, messages')
                /\ messages'[Len(messages')]
                      = Message("Semantic error", 0, outcome'.semantic)
                /\ Cardinality(StageMessages(messages',
                        {"Semantic error", "Semantic search"})) = 1
                /\ UNCHANGED <<user_question, limit_results, final_response,
                               citations, explanation>>
      ]_vars

\* the semantic stage failed after a structured stage that retrieved rows
C7_Witness ==
    /\ pc = "response" /\ visited = <<"intent", "sql", "semantic">>
    /\ outcome.sql = "ok" /\ FrameLen(sql_results[1]) > 1
    /\ sql_query # None /\ Len(sql_sources) > 1
    /\ outcome.semantic = "search failed"
    /\ semantic_results = Some(EmptyFrame)

\* C8: whatever the classifier's model returns, the Classifying stage
\* completes without raising and leaves an Intent with intent, entities and
\* query_type, and the run is at a retrieval stage.
C8_ClassifierNeverRaises ==
    visited # <<>> =>
        /\ IntentFields \subseteq DOMAIN intent_analysis
        /\ visited = <<"intent">> => pc \in {"sql", "semantic"}

\* C9: after the Classifying stage the Intent's query_type is one of
\* STRUCTURED, SEMANTIC, COMBINED.
C9_QueryTypeEnumerated ==
    Classified =>
        intent_analysis["query_type"] \in {"STRUCTURED", "SEMANTIC", "COMBINED"}

\* the four words of the keyword heuristic, in lower case
HeuristicWords ==
    { <<"h","o","w"," ","m","a","n","y">>, <<"c","o","u","n","t">>,
      <<"t","o","t","a","l">>, <<"t","o","p">> }

\* the question holds the word at position i, letter case ignored
WordAt(question, word, i) ==
    /\ i + Len(word) - 1 <= Len(question)
    /\ \A j \in 1..Len(word) :
          question[i + j - 1] = word[j] \/ question[i + j - 1] = CharUpper(word[j])

\* C10: when the classifier's model output cannot be parsed, or the
\* generation call fails, the Intent has query_type STRUCTURED if the
\* question holds one of 'how many', 'count', 'total', 'top' in any letter
\* case and SEMANTIC otherwise, the question as its intent, and no entities.
C10_KeywordFallback ==
    (visited # <<>> /\ classifier_output \in {"raise", "unparseable"}) =>
        /\ pc # "raised" \/ visited # <<"intent">>
        /\ intent_analysis =
              [intent |-> user_question,
               entities |-> EmptyDict,
               query_type |->
                  IF \E word \in HeuristicWords :
                        \E i \in 1..Len(user_question) :
                            WordAt(user_question, word, i)
                  THEN "STRUCTURED" ELSE "SEMANTIC"]

\* an unparseable output for a question holding 'How many'
C10_Witness ==
    /\ classifier_output = "unparseable"
    /\ user_question = <<"H","o","w"," ","m","a","n","y">>
    /\ Classified /\ QueryType = "STRUCTURED" /\ pc = "sql"

(***************************************************************************)
(* Functions called on their own.  A function of the code that no request  *)
(* reaches (the validator, hybrid search), or whose arguments a request    *)
(* reaches only in part, is applied to arguments drawn from a bounded set: *)
(* the initial state holds the arguments, the step the value returned.     *)
(***************************************************************************)
\* every variable of a request
request_vars ==
    <<pc, request_limit, user_question, limit_results, intent_analysis,
      sql_results, semantic_results, sql_sources, semantic_sources, sql_query,
      final_response, citations, explanation, messages, http_response,
      classifier_output, executed, calls, outcome, visited, cursor, requests>>

\* the channels of the single-request pipeline
pipeline_vars ==
    <<pc, request_limit, user_question, limit_results, intent_analysis,
      sql_results, semantic_results, sql_sources, semantic_sources, sql_query,
      final_response, citations, explanation, messages, http_response,
      classifier_output, executed, calls, outcome, visited>>

\* the channels of the single-request pipeline hold nothing
PipelineIdle ==
    /\ pc = "returned"
    /\ request_limit = MAX_SQL_RESULTS
    /\ user_question = <<>>
    /\ limit_results = MAX_SQL_RESULTS
    /\ intent_analysis = EmptyDict
    /\ sql_results = None
    /\ semantic_results = None
    /\ sql_sources = <<>>
    /\ semantic_sources = <<>>
    /\ sql_query = None
    /\ final_response = ""
    /\ citations = <<>>
    /\ explanation = EmptyDict
    /\ messages = <<>>
    /\ http_response = None
    /\ classifier_output = "none"
    /\ executed = <<>>
    /\ calls = [classifier |-> 0, generator |-> 0, store |-> 0,
                index |-> 0, answer |-> 0]
    /\ outcome = [sql |-> "not run", semantic |-> "not run"]
    /\ visited = <<>>

\* no request is under way
NoRequest ==
    /\ PipelineIdle
    /\ cursor = StartupCursor
    /\ requests = NoRequests

(***************************************************************************)
(* SQLValidator.validate_query on its own.                                 *)
(***************************************************************************)
\* a read of the dataset table, the table SQL_AGENT_PROMPT names:
\* SELECT COUNT(DISTINCT CDPHId) FROM cosmetic_csv WHERE ChemicalName LIKE '%titanium dioxide%'
DatasetQuery ==
    <<"S","E","L","E","C","T"," ","C","O","U","N","T","(","D","I","S",
      "T","I","N","C","T"," ","C","D","P","H","I","d",")"," ","F","R",
      "O","M"," ","c","o","s","m","e","t","i","c","_","c","s","v"," ",
      "W","H","E","R","E"," ","C","h","e","m","i","c","a","l","N","a",
      "m","e"," ","L","I","K","E"," ","'","%","t","i","t","a","n","i",
      "u","m"," ","d","i","o","x","i","d","e","%","'">>

\* statements handed to the filter, whole
BaseQueries ==
    {
      DatasetQuery,
      \* SELECT a FROM brands
      <<"S","E","L","E","C","T"," ","a"," ","F","R","O","M"," ","b","r",
        "a","n","d","s">>,
      \*  select\ta from Products p
      <<" ","s","e","l","e","c","t","\t","a"," ","f","r","o","m"," ",
        "P","r","o","d","u","c","t","s"," ","p">>,
      \* UPDATE cosmetic_csv SET a = 1
      <<"U","P","D","A","T","E"," ","c","o","s","m","e","t","i","c","_",
        "c","s","v"," ","S","E","T"," ","a"," ","="," ","1">>,
      \* SELECT a FROM brands b JOIN users u ON b.id = u.id
      <<"S","E","L","E","C","T"," ","a"," ","F","R","O","M"," ","b","r",
        "a","n","d","s"," ","b"," ","J","O","I","N"," ","u","s","e","r",
        "s"," ","u"," ","O","N"," ","b",".","i","d"," ","="," ","u",".",
        "i","d">>,
      \* SELECT a FROM brands, users
      <<"S","E","L","E","C","T"," ","a"," ","F","R","O","M"," ","b","r",
        "a","n","d","s",","," ","u","s","e","r","s">>,
      \* SELECT created_at FROM companies
      <<"S","E","L","E","C","T"," ","c","r","e","a","t","e","d","_","a",
        "t"," ","F","R","O","M"," ","c","o","m","p","a","n","i","e","s">>,
      \* DROP TABLE brands
      <<"D","R","O","P"," ","T","A","B","L","E"," ","b","r","a","n","d",
        "s">>,
      \* SELECTED a FROM brands
      <<"S","E","L","E","C","T","E","D"," ","a"," ","F","R","O","M"," ",
        "b","r","a","n","d","s">>,
      \* SELECT a FROM (SELECT b FROM chemicals) x
      <<"S","E","L","E","C","T"," ","a"," ","F","R","O","M"," ","(","S",
        "E","L","E","C","T"," ","b"," ","F","R","O","M"," ","c","h","e",
        "m","i","c","a","l","s",")"," ","x">>,
      \* SELECT a FROM users
      <<"S","E","L","E","C","T"," ","a"," ","F","R","O","M"," ","u","s",
        "e","r","s">> }

\* a second statement: ; DROP TABLE cosmetic_csv
DropSuffix ==
    <<";"," ","D","R","O","P"," ","T","A","B","L","E"," ","c","o","s",
      "m","e","t","i","c","_","c","s","v">>

\* texts that follow a statement
QuerySuffixes ==
    {
      \* 
      <<>>,
      DropSuffix,
      \* ; drop table brands
      <<";"," ","d","r","o","p"," ","t","a","b","l","e"," ","b","r","a",
        "n","d","s">>,
      \* ; DeLeTe FROM brands
      <<";"," ","D","e","L","e","T","e"," ","F","R","O","M"," ","b","r",
        "a","n","d","s">>,
      \*  -- note
      <<" ","-","-"," ","n","o","t","e">>,
      \*  --
      <<" ","-","-">>,
      \*  -- \n WHERE 1 = 1
      <<" ","-","-"," ","\n"," ","W","H","E","R","E"," ","1"," ","=",
        " ","1">>,
      \*  /* c */
      <<" ","/","*"," ","c"," ","*","/">>,
      \*  UNION SELECT b FROM users
      <<" ","U","N","I","O","N"," ","S","E","L","E","C","T"," ","b"," ",
        "F","R","O","M"," ","u","s","e","r","s">>,
      \*  union  select b from brands
      <<" ","u","n","i","o","n"," "," ","s","e","l","e","c","t"," ","b",
        " ","f","r","o","m"," ","b","r","a","n","d","s">>,
      \* ';
      <<"'",";">>,
      \*  WHERE n = "x" ;
      <<" ","W","H","E","R","E"," ","n"," ","="," ","\"","x","\""," ",
        ";">>,
      \*  WHERE sp_x = 1
      <<" ","W","H","E","R","E"," ","s","p","_","x"," ","="," ","1">>,
      \*  WHERE n = 'exec'
      <<" ","W","H","E","R","E"," ","n"," ","="," ","'","e","x","e","c",
        "'">>,
      \*  ORDER BY updated
      <<" ","O","R","D","E","R"," ","B","Y"," ","u","p","d","a","t","e",
        "d">>,
      \*  JOIN secrets s ON 1 = 1
      <<" ","J","O","I","N"," ","s","e","c","r","e","t","s"," ","s"," ",
        "O","N"," ","1"," ","="," ","1">>,
      \* , secrets
      <<","," ","s","e","c","r","e","t","s">>,
      \*  \n
      <<" ","\n">> }

\* ' AND ', and a word of n characters
W_AND == <<" ","A","N","D"," ">>

LongWord(n) == [i \in 1..n |-> "x"]

\* a second statement, a block comment and ' AND '
SecondStatement ==
    <<";"," ","D","R","O","P"," ","T","A","B","L","E"," ","t"," ","/",
      "*"," ","c"," ","*","/"," ","A","N","D"," ">>

\* the texts validate_query is applied to: the empty text, white space, each
\* statement with each suffix, and statements longer than the length ceiling
ValidatorInputs ==
    { <<>>, <<" ", "\n", " ">> }
    \cup { b \o s : b \in BaseQueries, s \in QuerySuffixes }
    \cup { b \o W_AND \o LongWord(MaxQueryLength) : b \in BaseQueries }
    \cup { b \o SecondStatement \o LongWord(MaxQueryLength) : b \in BaseQueries }

ValidatorInit ==
    /\ NoRequest
    /\ \E q \in ValidatorInputs :
        applied = [function |-> "validate_query", input |-> q, done |-> FALSE,
                   output |-> [is_valid |-> FALSE, error_message |-> ""]]

\* validate_query(applied.input) returns
CallValidateQuery ==
    /\ applied.function = "validate_query"
    /\ ~applied.done
    /\ applied' = [applied EXCEPT !.done = TRUE,
                                  !.output = validate_query(applied.input)]
    /\ UNCHANGED request_vars

ValidatorNext == CallValidateQuery

ValidatorSpec == ValidatorInit /\ [][ValidatorNext]_vars

(***************************************************************************)
(* Properties of the validator.                                            *)
(***************************************************************************)
\* validate_query has returned for the text applied.input
Validated == applied.function = "validate_query" /\ applied.done

\* the rejection reason of each rule (a)-(f), in the order of the rules
RuleReasons ==
    << "Query must be a non-empty string",
       "Only SELECT queries are allowed (read-only operations)",
       "Dangerous SQL keyword detected - not allowed",
       "Potential SQL injection detected",
       "Access to table is not allowed",
       "Query exceeds maximum length (5000 characters)" >>

\* the rules a text violates, each taken by itself: 1 for (a) .. 6 for (f)
ViolatedRules(q) ==
    LET query == StrStrip(q)
        upper_query == StrUpper(query)
        tables == FindTables(query)
    IN  {r \in 1..6 :
            CASE r = 1 -> q = <<>>
              [] r = 2 -> ~StartsWithSelect(query)
              [] r = 3 -> \E keyword \in DANGEROUS_KEYWORDS :
                              HasKeyword(upper_query, keyword)
              [] r = 4 -> InjectionDetected(query)
              [] r = 5 -> \E k \in 1..Len(tables) :
                              StrLower(tables[k]) \notin ALLOWED_TABLES
              [] r = 6 -> Len(query) > MaxQueryLength}

\* the least number of a non-empty set of numbers
Least(S) == CHOOSE r \in S : \A x \in S : r <= x

\* C11: validate_query reports the reason of the earliest rule, in the order
\* (a) non-empty, (b) starts with SELECT, (c) no mutating keyword, (d) no
\* injection shape, (e) tables in the allow-list, (f) length, that the text
\* violates, and accepts a text that violates none
C11_FirstFailingRuleWins ==
    Validated =>
        LET violated == ViolatedRules(applied.input)
        IN  IF violated = {}
            THEN applied.output = [is_valid |-> TRUE, error_message |-> "None"]
            ELSE applied.output = [is_valid |-> FALSE,
                                   error_message |-> RuleReasons[Least(violated)]]

\* a text that violates the rules (c), (d), (e) and (f) at once has been
\* rejected with the reason of (c)
C11_Witness ==
    /\ Validated
    /\ ViolatedRules(applied.input) = {3, 4, 5, 6}
    /\ applied.output.error_message = RuleReasons[3]

\* the first word of a text, white space around the text set aside, in upper
\* case; empty when the text does not open with a word
FirstWord(q) ==
    LET query == StrStrip(q)
    IN  StrUpper(SubSeq(query, 1, WordRunEnd(query, 1)))

W_UPDATE == <<"U","P","D","A","T","E">>

\* C12, as stated: a text that begins with UPDATE is rejected with the
\* mutating-keyword reason
C12_UpdateRejectedAsMutating ==
    (Validated /\ FirstWord(applied.input) = W_UPDATE) =>
        applied.output = [is_valid |-> FALSE, error_message |-> RuleReasons[3]]

\* C12, amended: every non-empty text that does not begin with the word
\* SELECT, one beginning with UPDATE included, is rejected, and the reason is
\* that only SELECT queries are allowed
C12_NotReadOnlyRejected ==
    (Validated /\ applied.input # <<>> /\ FirstWord(applied.input) # W_SELECT) =>
        applied.output = [is_valid |-> FALSE, error_message |-> RuleReasons[2]]

\* a text beginning with UPDATE has been rejected as not being a SELECT
C12_Witness ==
    /\ Validated
    /\ FirstWord(applied.input) = W_UPDATE
    /\ applied.output = [is_valid |-> FALSE, error_message |-> RuleReasons[2]]

\* C13: the read of the dataset table cosmetic_csv is accepted
C13_DatasetQueryAccepted ==
    (Validated /\ applied.input = DatasetQuery) => applied.output.is_valid

\* the words of a text: its maximal runs of word characters
WordsOf(q) ==
    { SubSeq(q, i, WordRunEnd(q, i)) :
        i \in {k \in 1..Len(q) : IsWord(q[k]) /\ WordStartsAt(q, k)} }

\* the mutating keywords, in lower case
MutatingWords ==
    { <<"d","r","o","p">>, <<"d","e","l","e","t","e">>,
      <<"t","r","u","n","c","a","t","e">>, <<"a","l","t","e","r">>,
      <<"i","n","s","e","r","t">>, <<"u","p","d","a","t","e">>,
      <<"c","r","e","a","t","e">>, <<"g","r","a","n","t">>,
      <<"r","e","v","o","k","e">>, <<"e","x","e","c">> }

\* C14: no accepted text has a mutating keyword among its words, in any
\* letter case; so an acceptable statement followed by a second, mutating
\* statement is rejected
C14_NoMutatingWordAccepted ==
    (Validated /\ applied.output.is_valid) =>
        \A w \in WordsOf(applied.input) : StrLower(w) \notin MutatingWords

\* an accepted statement with the suffix ; DROP TABLE cosmetic_csv has been
\* rejected for its keyword
C14_Witness ==
    /\ Validated
    /\ \E b \in BaseQueries :
        /\ validate_query(b).is_valid
        /\ applied.input = b \o DropSuffix
    /\ applied.output = [is_valid |-> FALSE, error_message |-> RuleReasons[3]]

\* the word of q that ends at position e, white space after it set aside, is
\* w (in upper case)
WordEndsAt(q, e, w) ==
    /\ e >= Len(w)
    /\ MatchAtIgnoreCase(q, w, e - Len(w) + 1)
    /\ WordStartsAt(q, e - Len(w) + 1)

W_JOIN == <<"J","O","I","N">>

\* the words that close a FROM list
ClauseWords ==
    { <<"W","H","E","R","E">>, <<"O","R","D","E","R">>, <<"G","R","O","U","P">>,
      <<"H","A","V","I","N","G">>, <<"L","I","M","I","T">>, <<"O","N">>,
      W_JOIN, W_UNION, W_SELECT }

\* position t of q lies in the list of names that follows a FROM at position
\* f: names, aliases, commas and white space only
InFromList(q, f, t) ==
    /\ FromMatchesAt(q, f)
    /\ f + Len(W_FROM) < t
    /\ \A k \in (f + Len(W_FROM))..(t - 1) :
            IsWord(q[k]) \/ IsSpace(q[k]) \/ q[k] = ","
    /\ \A w \in WordsOf(SubSeq(q, f + Len(W_FROM), t - 1)) :
            StrUpper(w) \notin ClauseWords

\* the last position before t that holds no white space, 0 if none
LastInkBefore(q, t) ==
    IF \A k \in 1..(t - 1) : IsSpace(q[k]) THEN 0
    ELSE CHOOSE k \in 1..(t - 1) :
            ~IsSpace(q[k]) /\ \A j \in (k + 1)..(t - 1) : IsSpace(q[j])

\* the tables a text names: the word after FROM, the word after JOIN, and
\* each word after a comma of a FROM list
ReferencedTables(q) ==
    { SubSeq(q, t, WordRunEnd(q, t)) :
        t \in {k \in 2..Len(q) :
                /\ IsWord(q[k])
                /\ WordStartsAt(q, k)
                /\ LET p == LastInkBefore(q, k)
                   IN  /\ p > 0
                       /\ \/ p < k - 1 /\ WordEndsAt(q, p, W_FROM)
                          \/ p < k - 1 /\ WordEndsAt(q, p, W_JOIN)
                          \/ /\ q[p] = ","
                             /\ \E f \in 1..p : InFromList(q, f, k)} }

\* C15: every table an accepted text names is in the allow-list
C15_OnlyAllowListedTables ==
    (Validated /\ applied.output.is_valid) =>
        \A table \in ReferencedTables(applied.input) :
            StrLower(table) \in ALLOWED_TABLES

\* C16: no accepted text holds an inline comment marker or a block comment
\* opener, wherever it stands
C16_NoCommentMarkerAccepted ==
    (Validated /\ applied.output.is_valid) =>
        /\ ~StrContains(applied.input, <<"-", "-">>)
        /\ ~StrContains(applied.input, <<"/", "*">>)

(***************************************************************************)
(* hybrid_search on its own: no request reaches it, semantic_node always   *)
(* passing sql_filter=None.                                                *)
(***************************************************************************)
\* the numbers of results asked for
HybridTopKs == {-1, 0, 1, 2}

HybridInit ==
    /\ NoRequest
    /\ \E top_k \in HybridTopKs :
        \E filter \in FilterOutcomes, vector \in VectorOutcomes(top_k * 10) :
            applied = [function |-> "hybrid_search",
                       input |-> [top_k |-> top_k, filter |-> filter,
                                  vector |-> vector],
                       done |-> FALSE,
                       output |-> [raised |-> FALSE, df |-> EmptyFrame,
                                   sources |-> <<>>]]

\* hybrid_search(question, filter query, top_k) returns or raises
CallHybridSearch ==
    /\ applied.function = "hybrid_search"
    /\ ~applied.done
    /\ applied' = [applied EXCEPT
                      !.done = TRUE,
                      !.output = hybrid_search(applied.input.top_k,
                                               applied.input.filter,
                                               applied.input.vector)]
    /\ UNCHANGED request_vars

HybridNext == CallHybridSearch

HybridSpec == HybridInit /\ [][HybridNext]_vars

(***************************************************************************)
(* Properties of hybrid search.                                            *)
(***************************************************************************)
\* hybrid_search has returned a result (it did not raise)
HybridReturned ==
    applied.function = "hybrid_search" /\ applied.done /\ ~applied.output.raised

\* C17: with an allow-set of size 0 hybrid search returns no row and no
\* source, whatever the index returned and whatever k
C17_EmptyAllowSetEmptyResult ==
    (HybridReturned /\ applied.input.filter.ids = {}) =>
        /\ applied.output.df = EmptyFrame
        /\ applied.output.sources = <<>>

\* the index returned ten neighbours, the allow-set was empty, and the result
\* is empty
C17_Witness ==
    /\ HybridReturned
    /\ applied.input.filter.ids = {}
    /\ Len(applied.input.vector.matches) = 10
    /\ applied.output.df = EmptyFrame

\* the identifier of a neighbour is in the allow-set
InAllowSet(match) ==
    /\ "cdph_id" \in DOMAIN match.metadata
    /\ match.metadata["cdph_id"] \in applied.input.filter.ids

\* the over-fetched neighbours whose identifier is in the allow-set, in rank
\* order
QualifyingNeighbours == SelectSeq(applied.input.vector.matches, InAllowSet)

\* C18: for k >= 1 the result is the first min(k, q) of the q qualifying
\* neighbours among the at most k*10 over-fetched, in rank order, numbered
\* 1..n without gaps, rows and sources alike
C18_FirstKQualifying ==
    (HybridReturned /\ applied.input.top_k >= 1) =>
        LET k == applied.input.top_k
            q == Len(QualifyingNeighbours)
            n == Min(k, q)
            out == applied.output
        IN  /\ Len(applied.input.vector.matches) <= k * 10
            /\ FrameLen(out.df) = n
            /\ Len(out.sources) = n
            /\ \A i \in 1..n :
                /\ out.sources[i].full_metadata = QualifyingNeighbours[i].metadata
                /\ out.sources[i].citation_id = <<"hyb", i>>
                /\ out.sources[i].row_index = i
                /\ out.df.rows[i].citation_id = <<"hyb", i>>
                /\ out.df.rows[i].Score = QualifyingNeighbours[i].score
                /\ out.df.rows[i].Product =
                      QualifyingNeighbours[i].metadata["product_name"]

\* k = 1, the over-fetch of ten neighbours is full, the nearest neighbour is
\* outside the allow-set, two later ones are inside, and the one retained is
\* the first of these
C18_Witness ==
    /\ HybridReturned
    /\ applied.input.top_k = 1
    /\ Len(applied.input.vector.matches) = 10
    /\ ~InAllowSet(applied.input.vector.matches[1])
    /\ Len(QualifyingNeighbours) = 2
    /\ FrameLen(applied.output.df) = 1
    /\ applied.output.sources[1].full_metadata = QualifyingNeighbours[1].metadata

(***************************************************************************)
(* Properties of the answer synthesizer, within a request.                 *)
(***************************************************************************)
\* a result set is absent or has no row
EmptyOrAbsent(frame) == frame = None \/ FrameLen(frame[1]) = 0

\* C19: once the response node has run, if the structured and the semantic
\* result sets are both empty or absent the answer is the fixed not-found
\* message, there is no citation and no text-generation call was made;
\* otherwise exactly one text-generation call was made
C19_SynthesizerShortCircuit ==
    TimesRun("response") = 1 =>
        IF EmptyOrAbsent(sql_results) /\ EmptyOrAbsent(semantic_results)
        THEN /\ pc \in {"END", "returned"}
             /\ final_response = NotFoundMessage
             /\ citations = <<>>
             /\ calls.answer = 0
        ELSE calls.answer = 1

\* the structured stage failed, the semantic stage did not run, and the run
\* ended with the not-found message without a text-generation call
C19_Witness ==
    /\ pc = "END"
    /\ sql_results = Some(EmptyFrame)
    /\ semantic_results = None
    /\ final_response = NotFoundMessage
    /\ calls.answer = 0

(***************************************************************************)
(* sql_node on its own, for every cap that a request can carry.            *)
(***************************************************************************)
\* the values of limit_results: min(limit, MAX_SQL_RESULTS) for any integer
SqlCaps == (0 - 1)..MAX_SQL_RESULTS

CapInit ==
    /\ NoRequest
    /\ \E cap \in SqlCaps, generation \in SqlGenerations :
        \E db \in DbOutcomesFor(sql_agent(generation.text)) :
            applied = [function |-> "sql_node",
                       input |-> [limit_results |-> cap,
                                  generation |-> generation, db |-> db],
                       done |-> FALSE,
                       output |-> AgentState]

\* sql_node(state) returns, state being the initial state of a request but
\* for its limit_results
CallSqlNode ==
    /\ applied.function = "sql_node"
    /\ ~applied.done
    /\ applied' = [applied EXCEPT
            !.done = TRUE,
            !.output = sql_node(
                [AgentState EXCEPT !.limit_results = applied.input.limit_results],
                applied.input.generation, applied.input.db)]
    /\ UNCHANGED request_vars

CapNext == CallSqlNode

CapSpec == CapInit /\ [][CapNext]_vars

\* sql_node has returned from its try block: the engine produced a result
\* and the stage kept it
StageSucceeded ==
    /\ applied.function = "sql_node"
    /\ applied.done
    /\ SqlFailure(applied.input.generation, applied.input.db) = "none"

\* C20: for a cap c in 0..6 and an engine result of n rows the structured
\* stage keeps min(n, c) rows, the first min(n, c) rows of the engine's
\* result in the engine's order
C20_CapKeepsFirstRows ==
    (StageSucceeded /\ applied.input.limit_results \in 0..6) =>
        LET engine == applied.input.db.rows
            kept == applied.output.sql_results[1].rows
            m == Min(Len(engine), applied.input.limit_results)
        IN  /\ Len(kept) = m
            /\ \A i \in 1..m : kept[i].data = engine[i]
            /\ Len(applied.output.sql_sources) = m

\* the cap is 6, the engine returned more rows than that, and the stage kept
\* the first 6
C20_Witness ==
    /\ StageSucceeded
    /\ applied.input.limit_results = 6
    /\ Len(applied.input.db.rows) > 6
    /\ FrameLen(applied.output.sql_results[1]) = 6
    /\ applied.output.sql_results[1].rows[6].data = applied.input.db.rows[6]

(***************************************************************************)
(* Properties of the Response and of the identifiers, within a request.    *)
(***************************************************************************)
\* the number of rows of a result of the Response, 0 when it is absent
ResponseRows(rows) == IF rows = None THEN 0 ELSE Len(rows[1])

\* C21: whatever limit was requested, the Response holds at most 6
\* structured rows and at most 5 semantic rows
C21_ResponseWithinGlobalCaps ==
    (http_response # None /\ http_response[1].status = 200) =>
        /\ ResponseRows(http_response[1].sql_results) <= MAX_SQL_RESULTS
        /\ ResponseRows(http_response[1].semantic_results) <= MAX_SEMANTIC_RESULTS

\* the rows of a result set, none when it is absent
RowsOf(frame) == IF frame = None THEN <<>> ELSE frame[1].rows

\* C22: when the synthesizer has returned for s structured and m semantic
\* rows, s + m >= 1, the citation list has s + m entries with pairwise distinct
\* ids, numbered 1..s+m in list order, the structured rows first, each in its
\* own order, every row once
C22_CitationTable ==
    (/\ \/ pc = "END"
        \/ pc = "returned" /\ http_response[1].status = 200
     /\ Len(RowsOf(sql_results)) + Len(RowsOf(semantic_results)) >= 1) =>
        LET S == RowsOf(sql_results)
            M == RowsOf(semantic_results)
        IN  /\ Len(citations) = Len(S) + Len(M)
            /\ \A i, j \in 1..Len(citations) :
                    citations[i].citation_id = citations[j].citation_id => i = j
            /\ \A i \in 1..Len(citations) : citations[i].citation_number = i
            /\ \A i \in 1..Len(S) :
                    citations[i].type = "sql" /\ citations[i].row_data = S[i]
            /\ \A i \in 1..Len(M) :
                    /\ citations[Len(S) + i].type = "semantic"
                    /\ citations[Len(S) + i].row_data = M[i]

\* a run has ended with at least two structured and two semantic rows, all
\* cited
C22_Witness ==
    /\ pc = "END"
    /\ Len(RowsOf(sql_results)) >= 2
    /\ Len(RowsOf(semantic_results)) >= 2
    /\ Len(citations) = Len(RowsOf(sql_results)) + Len(RowsOf(semantic_results))

\* C23: the i-th structured row kept has id sql-i in the result table and in
\* the sources; the i-th semantic match has id sem-i and rank i, and is the
\* i-th neighbour the index returned
C23_SourceScopedIds ==
    /\ Len(sql_sources) = Len(RowsOf(sql_results))
    /\ \A i \in 1..Len(RowsOf(sql_results)) :
        /\ RowsOf(sql_results)[i].citation_id = <<"sql", i>>
        /\ sql_sources[i].citation_id = <<"sql", i>>
        /\ sql_sources[i].row_data = RowsOf(sql_results)[i]
    /\ Len(semantic_sources) = Len(RowsOf(semantic_results))
    /\ \A i \in 1..Len(RowsOf(semantic_results)) :
        /\ RowsOf(semantic_results)[i].citation_id = <<"sem", i>>
        /\ RowsOf(semantic_results)[i].Rank = i
        /\ RowsOf(semantic_results)[i].Score = RankedIndex[i].score
        /\ semantic_sources[i].citation_id = <<"sem", i>>
        /\ semantic_sources[i].rank = i
        /\ semantic_sources[i].full_metadata = RankedIndex[i].metadata

\* both stages have kept rows, the second and third semantic matches having
\* the same score
C23_Witness ==
    /\ Len(RowsOf(sql_results)) >= 2
    /\ Len(RowsOf(semantic_results)) >= 3
    /\ RowsOf(semantic_results)[2].Score = RowsOf(semantic_results)[3].Score
    /\ sql_sources[2].citation_id = <<"sql", 2>>
    /\ semantic_sources[3].citation_id = <<"sem", 3>>

(***************************************************************************)
(* Two requests served at once: each has its own AgentState (main.py       *)
(* 99-114), both use db_connections.cursor (workflow.py 70-72).  The graph *)
(* runs one node at a time for each request; the nodes after sql_node do   *)
(* not use the store and are left out.                                     *)
(***************************************************************************)
RequestIds == {1, 2}

\* the largest result the store holds for a query of these requests
MaxConcurrentRows == 3

\* main.py 99-114: the initial state of the graph for one request
InitialState(question, limit) ==
    [user_question |-> question,
     intent_analysis |-> EmptyDict,
     sql_results |-> None,
     semantic_results |-> None,
     sql_sources |-> <<>>,
     semantic_sources |-> <<>>,
     sql_query |-> None,
     final_response |-> "",
     citations |-> <<>>,
     explanation |-> EmptyDict,
     messages |-> <<>>,
     limit_results |-> Min(limit, MAX_SQL_RESULTS)]

\* what the store does with the query of request r: the rows it holds for
\* that query are told from the other request's by their values
StoreOutcomesOf(r, query) ==
    { [db EXCEPT !.rows = [i \in 1..Len(db.rows) |-> 100 * r + i]] :
        db \in { d \in DbOutcomesFor(query) : Len(d.rows) <= MaxConcurrentRows } }

\* produced: what the store did with the request's own query, None before
\* the request has run one
ConcurrentInit ==
    /\ PipelineIdle
    /\ applied = NoApplication
    /\ cursor = StartupCursor
    /\ requests \in [RequestIds ->
            { [pc |-> "intent", state |-> InitialState(q, l), produced |-> None] :
                q \in { <<"T","O","P">>, <<"h","i">> }, l \in {2, 9} }]

\* the graph of request r runs the intent node and follows should_use_sql;
\* the classifier's model returns no usable text to these requests, so that
\* intent_agent falls back on the words of the question
ServeIntent(r) ==
    /\ requests[r].pc = "intent"
    /\ \E response \in { x \in IntentResponses :
                            x.kind \in {"raise", "unparseable", "number"} } :
        LET ran == intent_node(requests[r].state, response)
            returned == [ran.state EXCEPT
                !.messages = operator_add(requests[r].state.messages, @)]
        IN  requests' = [requests EXCEPT
                ![r].pc = IF ran.raised THEN "raised" ELSE should_use_sql(returned),
                ![r].state = IF ran.raised THEN @ ELSE returned]
    /\ UNCHANGED <<pipeline_vars, applied, cursor>>

\* the graph of request r runs the sql node and follows should_use_semantic
ServeSql(r) ==
    /\ requests[r].pc = "sql"
    /\ \E generation \in SqlGenerations :
        \E db \in StoreOutcomesOf(r, sql_agent(generation.text)) :
            LET on_cursor == SqlNodeOnCursor(cursor, r, db)
                ran == sql_node(requests[r].state, generation, on_cursor.db)
                returned == [ran EXCEPT
                    !.messages = operator_add(requests[r].state.messages, @)]
            IN  /\ requests' = [requests EXCEPT
                        ![r].pc = should_use_semantic(returned),
                        ![r].state = returned,
                        ![r].produced = IF generation.raised THEN None ELSE Some(db)]
                /\ cursor' = IF generation.raised THEN cursor
                              ELSE on_cursor.cursor
    /\ UNCHANGED <<pipeline_vars, applied>>

ConcurrentNext == \E r \in RequestIds : ServeIntent(r) \/ ServeSql(r)

ConcurrentSpec == ConcurrentInit /\ [][ConcurrentNext]_vars

\* the structured stage of request r kept a result
KeptRows(r) ==
    /\ requests[r].state.sql_results # None
    /\ requests[r].state.sql_query # None

\* the rows and the column names request r holds are those the store
\* produced for the query of request r
RowsAreOwn(r) ==
    KeptRows(r) =>
        LET df == requests[r].state.sql_results[1]
            db == requests[r].produced[1]
        IN  /\ requests[r].produced # None
            /\ df.columns = <<"citation_id">> \o db.columns
            /\ Len(df.rows) <= Len(db.rows)
            /\ \A i \in 1..Len(df.rows) : df.rows[i].data = db.rows[i]

\* the cursor the structured stage of request r is about to use holds the
\* description and result set of no other request
CursorIsOwn(r) ==
    requests[r].pc = "sql" => cursor.executed_by \in {0, r}

\* C24: two requests served at once are independent: in every interleaving
\* of their stage steps each request's rows and column names are those of
\* its own query, and no mutable state, such as what the store cursor holds,
\* is shared between them
C24_ConcurrentRequestsIndependent ==
    requests # NoRequests =>
        \A r \in RequestIds : RowsAreOwn(r) /\ CursorIsOwn(r)

\* in every interleaving of the stage steps the rows and the column names
\* of each request are its own
C24_RowsAreOwn ==
    requests # NoRequests => \A r \in RequestIds : RowsAreOwn(r)

\* both requests have kept rows, each its own
C24_BothKeptRows ==
    /\ requests # NoRequests
    /\ \A r \in RequestIds :
        KeptRows(r) /\ Len(requests[r].state.sql_results[1].rows) >= 2

(***************************************************************************)
(* sql_agent lines 58-72 on its own: the extraction of the statement from  *)
(* the text the generator returned.                                        *)
(***************************************************************************)
\* the texts sql_agent is applied to: a statement as the generator wraps it
\* (what it writes before the statement, the keyword as it writes it, the
\* rest of the statement and what follows it), and texts with no statement
GeneratorOutputs ==
    LET prefixes ==
            { <<>>,
              <<"o","k",":"," ">>,
              FENCE_SQL \o <<"\n">>,
              FENCE \o <<"S","Q","L","\n">>,
              <<"G","r","o",SharpS,"e",":"," ">> }
        keywords ==
            { <<"S","E","L","E","C","T">>,
              <<"s","e","l","e","c","t">>,
              <<"S","e","l","e","c","t">> }
        bodies ==
            { <<" ","a"," ","F","R","O","M"," ","b">>,
              <<" ","a"," ","F","R","O","M"," ","b",";">>,
              <<" ","a"," ","F","R","O","M"," ","b",";"," ",
                "D","R","O","P"," ","T","A","B","L","E"," ","b",";">>,
              <<" ","'","x",";","y","'"," ","F","R","O","M"," ","b",";">> }
        suffixes ==
            { <<>>,
              <<"\n">> \o FENCE,
              <<" ","d","o","n","e",".">>,
              <<"\n">> \o FENCE \o <<" ","o","k",";">> }
    IN  { p \o k \o b \o s : p \in prefixes, k \in keywords,
                             b \in bodies, s \in suffixes }
        \cup { <<>>, <<"s","o","r","r","y">>, <<"n","o",";">> }

ExtractInit ==
    /\ NoRequest
    /\ \E response \in GeneratorOutputs :
        applied = [function |-> "sql_agent", input |-> response, done |-> FALSE,
                   output |-> <<>>]

\* sql_agent returns for the generated text applied.input
CallSqlAgent ==
    /\ applied.function = "sql_agent"
    /\ ~applied.done
    /\ applied' = [applied EXCEPT !.done = TRUE,
                                  !.output = sql_agent(applied.input)]
    /\ UNCHANGED request_vars

ExtractNext == CallSqlAgent

ExtractSpec == ExtractInit /\ [][ExtractNext]_vars

\* the 1-based position of the first SELECT of s in any letter case, 0 if none
FirstKeyword(s) ==
    IF \E i \in 1..Len(s) : MatchAtIgnoreCase(s, W_SELECT, i)
    THEN Least({ i \in 1..Len(s) : MatchAtIgnoreCase(s, W_SELECT, i) })
    ELSE 0

\* C25: for every generated text that holds SELECT in any letter case, the
\* query returned starts at the keyword, holds no fence marker, and, when a
\* ';' follows the keyword, ends at the first ';' after it, nothing after it
\* surviving
C25_ExtractsOneStatement ==
    (/\ applied.function = "sql_agent"
     /\ applied.done
     /\ FirstKeyword(applied.input) # 0) =>
        LET out == applied.output
            rest == StrFrom(applied.input, FirstKeyword(applied.input))
        IN  /\ MatchAtIgnoreCase(out, W_SELECT, 1)
            /\ ~StrContains(out, FENCE)
            /\ StrContains(rest, <<";">>) =>
                    /\ out = SubSeq(StrRemove(StrRemove(rest, FENCE_SQL), FENCE),
                                    1, Len(out))
                    /\ StrFind(out, <<";">>) = Len(out)

\* the same, read for generated text in which no letter changes length when
\* put in upper case
C25_ExtractsOneStatementAscii ==
    (\A i \in 1..Len(applied.input) : applied.input[i] # SharpS) =>
        C25_ExtractsOneStatement

\* the tags of the status messages a stage writes
StageTags(node) ==
    CASE node = "intent" -> {"Intent analyzed"}
      [] node = "sql" -> {"SQL executed", "SQL error"}
      [] node = "semantic" -> {"Semantic search", "Semantic error"}
      [] OTHER -> {}

\* the classification and retrieval stages that have run, in order
StagesRun == SelectSeq(visited, LAMBDA node : StageTags(node) # {})

\* C26: at the end of every run the diagnostic trail holds exactly one status
\* message for each classification or retrieval stage that ran, in the order
\* the stages ran, none of them twice
C26_OneMessagePerStage ==
    (pc = "END" \/ (pc = "returned" /\ http_response[1].status = 200)) =>
        /\ Len(messages) = Len(StagesRun)
        /\ \A i \in 1..Len(messages) : messages[i].tag \in StageTags(StagesRun[i])

\* the classifier's model returned a JSON object without the query_type
\* field, and intent_agent defaulted it
QueryTypeDefaulted ==
    /\ Classified
    /\ classifier_output = "object"
    /\ \E d \in IntentObjects :
        /\ "query_type" \notin DOMAIN d
        /\ intent_analysis = IntentDefaults(user_question, d)

\* C27: the two defaulting paths of the classifier agree: the query_type
\* chosen when the output parses but lacks the field is the one the keyword
\* heuristic of the unparseable path chooses for the same question
C27_DefaultingPathsAgree ==
    QueryTypeDefaulted =>
        intent_analysis["query_type"] = IntentFallback(user_question).query_type

\* C28: the orchestrator never uses hybrid mode: whatever the structured
\* stage recorded, the semantic stage asks the index for the clamped cap of
\* neighbours of the question and keeps what the plain search makes of them,
\* or the empty result when the search fails
C28_NeverHybrid ==
    [][pc = "semantic" =>
        \E vector \in VectorOutcomes(Min(limit_results, MAX_SEMANTIC_RESULTS)) :
            IF vector.raised
            THEN /\ semantic_results' = Some(EmptyFrame)
                 /\ semantic_sources' = <<>>
            ELSE /\ semantic_results' = Some(semantic_search(vector).df)
                 /\ semantic_sources' = semantic_search(vector).sources
    ]_vars

\* a COMBINED run in which the structured stage recorded its query and kept
\* rows, and the semantic stage found matches
C28_Witness ==
    /\ visited = <<"intent", "sql", "semantic">>
    /\ sql_query # None
    /\ Len(RowsOf(sql_results)) >= 1
    /\ Len(RowsOf(semantic_results)) >= 2
    /\ outcome.semantic = "ok"

(***************************************************************************)
(* SQLValidator.sanitize_query (sql_validator.py 135-152) on its own.      *)
(***************************************************************************)
\* the characters of s at the positions in keep, in their order
KeepAt(s, keep) ==
    [j \in 1..Cardinality(keep) |->
        s[CHOOSE i \in keep : Cardinality({k \in keep : k <= i}) = j]]

\* re.sub(r'--[^\n]*', '', s): from the first -- of a line to the end of the
\* line, the newline staying
RemoveLineComments(s) ==
    KeepAt(s, { i \in 1..Len(s) :
                 ~\E k \in 1..i :
                     /\ MatchAt(s, <<"-", "-">>, k)
                     /\ \A n \in k..i : s[n] # "\n" })

RECURSIVE RemoveBlockCommentsFrom(_, _)
\* re.sub(r'/\*[\s\S]*?\*/', '', s) scanning from position i: the leftmost /*
\* that has a */ after it is removed up to the first such */
RemoveBlockCommentsFrom(s, i) ==
    LET closes(k) == { j \in (k + 2)..Len(s) : MatchAt(s, <<"*", "/">>, j) }
        opens == { k \in i..Len(s) :
                     MatchAt(s, <<"/", "*">>, k) /\ closes(k) # {} }
    IN  IF opens = {} THEN SubSeq(s, i, Len(s))
        ELSE LET m == CHOOSE k \in opens : \A o \in opens : k <= o
                 j == CHOOSE c \in closes(m) : \A o \in closes(m) : c <= o
             IN  SubSeq(s, i, m - 1) \o RemoveBlockCommentsFrom(s, j + 2)

\* re.sub(r'\s+', ' ', s): every run of white space becomes one space
CollapseWhitespace(s) ==
    LET kept == KeepAt(s, { i \in 1..Len(s) :
                             ~IsSpace(s[i]) \/ i = 1 \/ ~IsSpace(s[i - 1]) })
    IN  [i \in 1..Len(kept) |-> IF IsSpace(kept[i]) THEN " " ELSE kept[i]]

\* sanitize_query
sanitize_query(raw_query) ==
    StrStrip(CollapseWhitespace(
        RemoveBlockCommentsFrom(RemoveLineComments(raw_query), 1)))

\* the largest number of fragments of a text
MaxPieces == 4

RECURSIVE PieceTexts(_)
\* the texts given to sanitize_query: those made of at most n fragments
PieceTexts(n) ==
    LET pieces == { <<"-">>, <<"/">>, <<"*">>, <<"a">>, <<" ">>, <<"\n">>,
                    <<"/", "*", "*", "/">>, <<"-", "-", "b", "\n">> }
    IN  IF n = 0 THEN { <<>> }
        ELSE PieceTexts(n - 1)
             \cup { t \o p : t \in PieceTexts(n - 1), p \in pieces }

SanitizeInit ==
    /\ NoRequest
    /\ \E q \in PieceTexts(MaxPieces) :
        applied = [function |-> "sanitize_query", input |-> q, done |-> FALSE,
                   output |-> <<>>]

\* sanitize_query(applied.input) returns
CallSanitizeQuery ==
    /\ applied.function = "sanitize_query"
    /\ ~applied.done
    /\ applied' = [applied EXCEPT !.done = TRUE,
                                  !.output = sanitize_query(applied.input)]
    /\ UNCHANGED request_vars

SanitizeNext == CallSanitizeQuery

SanitizeSpec == SanitizeInit /\ [][SanitizeNext]_vars

\* s holds a complete block comment
HasBlockComment(s) ==
    \E k \in 1..Len(s) :
        /\ MatchAt(s, <<"/", "*">>, k)
        /\ \E j \in (k + 2)..Len(s) : MatchAt(s, <<"*", "/">>, j)

\* C30: sanitize_query is idempotent and complete: sanitizing its result
\* again changes nothing, and the result holds no inline comment (--) and no
\* complete block comment
C30_SanitizeIdempotentComplete ==
    (applied.function = "sanitize_query" /\ applied.done) =>
        /\ sanitize_query(applied.output) = applied.output
        /\ ~StrContains(applied.output, <<"-", "-">>)
        /\ ~HasBlockComment(applied.output)

(***************************************************************************)
(* SQLValidator.analyze_query_safety and get_sql_safety_report             *)
(* (sql_validator.py 155-215, 231-249) on their own.                       *)
(***************************************************************************)
\* len(re.findall(rf'\b{keyword}\b', upper_query))
CountKeyword(upper_query, keyword) ==
    Cardinality({ i \in 1..Len(upper_query) :
                    /\ MatchAt(upper_query, keyword, i)
                    /\ WordStartsAt(upper_query, i)
                    /\ WordEndsBefore(upper_query, i + Len(keyword)) })

\* analyze_query_safety; a warning is its text and the number written in it
analyze_query_safety(raw_query) ==
    LET upper_query == StrUpper(raw_query)
        \* re.findall(r'(\w+)\s*\(', upper_query): the words followed by (
        called == { i \in 1..Len(upper_query) :
                      /\ IsWord(upper_query[i])
                      /\ WordStartsAt(upper_query, i)
                      /\ LET p == SpaceRunEnd(upper_query,
                                      WordRunEnd(upper_query, i) + 1) + 1
                         IN  p <= Len(upper_query) /\ upper_query[p] = "(" }
        functions == [j \in 1..Cardinality(called) |->
                        LET i == CHOOSE k \in called :
                                    Cardinality({c \in called : c <= k}) = j
                        IN  SubSeq(upper_query, i, WordRunEnd(upper_query, i))]
        join_count == CountKeyword(upper_query, W_JOIN)
        where_count == CountKeyword(upper_query, <<"W","H","E","R","E">>)
        complexity_level ==
            IF join_count > 3 THEN "high"
            ELSE IF join_count > 1 \/ where_count > 1 THEN "medium"
            ELSE "low"
        uses_like == StrContains(upper_query, <<"L","I","K","E">>)
        after_like == IF uses_like THEN 100 - 5 ELSE 100
        after_join == IF StrContains(upper_query, W_JOIN)
                      THEN after_like - 10 * join_count ELSE after_like
        safety_score == IF complexity_level = "high"
                        THEN after_join - 20 ELSE after_join
    IN  [is_select_only |-> StartsWithSelect(upper_query),
         detected_tables |-> FindTables(upper_query),
         detected_functions |-> functions,
         complexity_level |-> complexity_level,
         safety_score |-> Max(0, safety_score),
         warnings |->
            (IF join_count > 3
             THEN << <<"Query has JOINs - may be slow", join_count>> >>
             ELSE <<>>)
            \o (IF uses_like
                THEN << <<"Query uses LIKE operator - may be slow", 0>> >>
                ELSE <<>>)]

\* get_sql_safety_report failing a query whose score is under 50
get_sql_safety_report_gated(raw_query) ==
    LET analysis == analyze_query_safety(raw_query)
        verdict == validate_sql_before_execution(raw_query)
    IN  [is_select_only |-> analysis.is_select_only,
         detected_tables |-> analysis.detected_tables,
         detected_functions |-> analysis.detected_functions,
         complexity_level |-> analysis.complexity_level,
         safety_score |-> analysis.safety_score,
         warnings |-> analysis.warnings,
         validation |-> [verdict EXCEPT
                            !.is_valid = @ /\ analysis.safety_score >= 50]]

\* get_sql_safety_report: the analysis, with the verdict under "validation"
get_sql_safety_report(raw_query) ==
    LET verdict == validate_sql_before_execution(raw_query)
        analysis == analyze_query_safety(raw_query)
    IN  [is_select_only |-> analysis.is_select_only,
         detected_tables |-> analysis.detected_tables,
         detected_functions |-> analysis.detected_functions,
         complexity_level |-> analysis.complexity_level,
         safety_score |-> analysis.safety_score,
         warnings |-> analysis.warnings,
         validation |-> verdict]

\* the largest number of JOIN clauses of a text
MaxJoins == 10

RECURSIVE Joins(_)
\* n JOIN clauses
Joins(n) == IF n = 0 THEN <<>> ELSE Joins(n - 1) \o <<" ","J","O","I","N"," ","c">>

\* the texts the report is asked for: a statement, up to MaxJoins JOIN
\* clauses, and an ending
SafetyInit ==
    /\ NoRequest
    /\ \E b \in { <<"S","E","L","E","C","T"," ","a"," ","F","R","O","M"," ",
                    "b","r","a","n","d","s">>,
                  <<" ","s","e","l","e","c","t"," ","C","O","U","N","T"," ","(",
                    "a",")"," ","f","r","o","m"," ","t">>,
                  <<"D","R","O","P"," ","T","A","B","L","E"," ","b","r","a","n","d","s">>,
                  <<>> },
          n \in 0..MaxJoins,
          e \in { <<>>,
                  <<" ","W","H","E","R","E"," ","a"," ","l","i","k","e"," ","'","x","'">>,
                  <<" ","W","H","E","R","E"," ","a"," ","W","H","E","R","E"," ","b">>,
                  <<" ","u","n","l","i","k","e","l","y">>,
                  <<" ","J","O","I","N","E","D">> } :
        applied = [function |-> "get_sql_safety_report",
                   input |-> b \o Joins(n) \o e, done |-> FALSE, output |-> <<>>]

\* get_sql_safety_report(applied.input) returns
CallSafetyReport ==
    /\ applied.function = "get_sql_safety_report"
    /\ ~applied.done
    /\ applied' = [applied EXCEPT
            !.done = TRUE, !.output = get_sql_safety_report(applied.input)]
    /\ UNCHANGED request_vars

SafetyNext == CallSafetyReport

SafetySpec == SafetyInit /\ [][SafetyNext]_vars

\* the number of JOIN words of q, in any letter case
JoinWords(q) ==
    Cardinality({ i \in 1..Len(q) :
                    /\ MatchAtIgnoreCase(q, W_JOIN, i)
                    /\ WordStartsAt(q, i)
                    /\ WordEndsBefore(q, i + Len(W_JOIN)) })

\* q holds LIKE in any letter case
UsesLike(q) == \E i \in 1..Len(q) : MatchAtIgnoreCase(q, <<"L","I","K","E">>, i)

Reported == applied.function = "get_sql_safety_report" /\ applied.done

\* C29: the analysis never acts as a gate: for every query text the score is
\* 100 minus 5 for LIKE, minus 10 for each JOIN, minus 20 when there are more
\* than three JOINs, floored at 0, so within 0..100, and the verdict in the
\* report is the verdict of validate_query, whatever the score
C29_ScoreIsNoGate ==
    Reported =>
        LET q == applied.input
            raw == 100 - (IF UsesLike(q) THEN 5 ELSE 0) - 10 * JoinWords(q)
                       - (IF JoinWords(q) > 3 THEN 20 ELSE 0)
        IN  /\ applied.output.safety_score = Max(0, raw)
            /\ applied.output.safety_score \in 0..100
            /\ applied.output.validation = validate_query(q)

\* a query the filter accepts although its score is 0, the floor having acted
C29_Witness ==
    /\ Reported
    /\ applied.output.validation.is_valid
    /\ applied.output.safety_score = 0
    /\ JoinWords(applied.input) = 9
    /\ UsesLike(applied.input)

====
